---------------------------- MODULE Spec2Model ----------------------------
(***************************************************************************)
(* The resilience layer of the card-collection backend: the multi-tier     *)
(* cache (services/cache.py), the rate limiter and the request queue       *)
(* (services/rate_limiter.py), the retry loop and the fallback strategy    *)
(* (services/error_handler.py) and the entity-by-id route that sequences   *)
(* them (routes/cards.py).                                                 *)
(*                                                                         *)
(* Time is an integer number of milliseconds.  time.time() and             *)
(* datetime.now() read the same clock, the variable now.                   *)
(***************************************************************************)
EXTENDS Integers, Sequences, FiniteSets, TLC

VARIABLES
    now,            \* the wall clock, in ms
    cache_service,  \* CacheService: memory_cache, disk_cache, redis_store, redis_client
    faults_left,    \* how many more cache operations may meet a failing backend
    set_log,        \* history: per key, the last set, or the delete that followed it
    last_get,       \* history: the get that has just returned
    rate_limiter,   \* RateLimiter: the windows, failure counts and backoffs
    lim_result,     \* history: the check_rate_limit call that has just returned
    denial,         \* history: the last denial, while nothing was recorded that touches it
    lim_budget,     \* how many more records, failures and clock steps a limiter run makes
    request_queue,  \* RequestQueue: the semaphore's free permits, last_request_time
    queue_calls,    \* per execute_request call: where it stands, when its sleep ends
    dispatches,     \* history: the times of the last two calls of a wrapped request_func
    error_handler,  \* ErrorHandler: error_counts, last_errors
    retry_calls,    \* per retry_with_backoff call: where it stands and what it has seen
    card_requests,  \* per get_card_by_id request: where it stands
    upstream_calls  \* history: the times of the calls sent to the upstream provider

cacheVars == <<cache_service, faults_left, set_log, last_get>>
limVars == <<rate_limiter, lim_result, denial, lim_budget>>
queueVars == <<request_queue, queue_calls, dispatches>>
retryVars == <<error_handler, retry_calls>>
routeVars == <<card_requests, upstream_calls>>

vars == <<now, cacheVars, limVars, queueVars, retryVars, routeVars>>

notCacheVars == <<limVars, queueVars, retryVars, routeVars>>
notLimVars == <<cacheVars, queueVars, retryVars, routeVars>>
notQueueVars == <<cacheVars, limVars, retryVars, routeVars>>
notRetryVars == <<cacheVars, limVars, queueVars, routeVars>>
\* what the route leaves alone: the histories and budgets of the other runs
notRouteVars == <<faults_left, set_log, last_get, lim_result, denial, lim_budget,
                  queue_calls, dispatches, retry_calls>>

Second == 1000

\* Python's None, for optional numbers and for an absent payload.
None == -1
NoData == "None"

Min(a, b) == IF a < b THEN a ELSE b
Max(a, b) == IF a > b THEN a ELSE b

(***************************************************************************)
(* CacheService (services/cache.py)                                        *)
(***************************************************************************)
default_ttl == 3600 * Second
card_data_ttl == 86400 * Second
search_results_ttl == 1800 * Second
\* the ttl the suggestions route passes to set (routes/cards.py)
suggestions_ttl == 300 * Second

Keys == {"card:1"}
\* "obj" is a payload json cannot encode natively: json.dumps(default=str)
\* turns it into its string form.
Values == {"cards", "obj"}
TtlArgs == {None, suggestions_ttl}

NoEntry == [data |-> NoData, expires_at |-> None]
Entry(v, exp) == [data |-> v, expires_at |-> exp]

\* json.dumps(value, default=str) followed by json.loads
JsonDumps(v) == <<"json", IF v = "obj" THEN "str(obj)" ELSE v>>
JsonLoads(s) == s[2]

\* diskcache.Cache.get: the row is visible while expire_time > now
DiskGet(disk, key, t) ==
    IF disk[key] # NoEntry /\ disk[key].expires_at > t THEN disk[key].data ELSE NoData

\* redis GET after SETEX: the key lives for ttl after it was written
RedisGet(store, key, t) ==
    IF store[key] # NoEntry /\ store[key].expires_at > t THEN store[key].data ELSE NoData

NoFaults == [disk_read |-> FALSE, disk_write |-> FALSE,
             redis_read |-> FALSE, redis_write |-> FALSE]
FaultSets(n) ==
    IF n > 0 THEN [disk_read : BOOLEAN, disk_write : BOOLEAN,
               redis_read : BOOLEAN, redis_write : BOOLEAN]
    ELSE {NoFaults}

\* A variant of the promotion whose copy is expired from the start.
PromotedAlreadyExpired(t) == t

\* The expiry a tier-2 / tier-3 hit gives the copy it puts in faster tiers.
PromotedExpiry(t) == t + default_ttl

\* CacheService.get: the service after the call and the value returned.
CacheGet(cs, key, t, f) ==
    LET mem == cs.memory_cache
        memHit == mem[key] # NoEntry /\ mem[key].expires_at > t
        mem1 == IF mem[key] # NoEntry /\ ~memHit
                THEN [mem EXCEPT ![key] = NoEntry] ELSE mem
        diskData == IF f.disk_read THEN NoData ELSE DiskGet(cs.disk_cache, key, t)
        redisRaw == IF cs.redis_client /\ ~f.redis_read
                    THEN RedisGet(cs.redis_store, key, t) ELSE NoData
    IN  IF memHit
        THEN [cs |-> cs, data |-> mem[key].data]
        ELSE IF diskData # NoData
        THEN [cs |-> [cs EXCEPT !.memory_cache =
                         [mem1 EXCEPT ![key] = Entry(diskData, PromotedExpiry(t))]],
              data |-> diskData]
        ELSE IF redisRaw # NoData
        THEN LET parsed == JsonLoads(redisRaw)
                 mem2 == [mem1 EXCEPT ![key] = Entry(parsed, PromotedExpiry(t))]
             IN  IF f.disk_write
                 \* disk_cache.set raises inside the redis try block:
                 \* the except swallows it and get falls to return None
                 THEN [cs |-> [cs EXCEPT !.memory_cache = mem2], data |-> NoData]
                 ELSE [cs |-> [cs EXCEPT !.memory_cache = mem2,
                                         !.disk_cache[key] = Entry(parsed, t + default_ttl)],
                       data |-> parsed]
        ELSE [cs |-> [cs EXCEPT !.memory_cache = mem1], data |-> NoData]

\* A variant of set that stores nothing.
CacheSetNowhere(cs, key, value, ttlArg, t, f) == cs

\* CacheService.set
CacheSet(cs, key, value, ttlArg, t, f) ==
    LET ttl == IF ttlArg = None THEN default_ttl ELSE ttlArg
    IN  [cs EXCEPT
            !.memory_cache[key] = Entry(value, t + ttl),
            !.disk_cache[key] =
                IF f.disk_write THEN @ ELSE Entry(value, t + ttl),
            !.redis_store[key] =
                IF cs.redis_client /\ ~f.redis_write
                THEN Entry(JsonDumps(value), t + ttl) ELSE @]

\* A variant of delete that clears the in-process tier only.
CacheDeleteMemoryOnly(cs, key, f) == [cs EXCEPT !.memory_cache[key] = NoEntry]

\* CacheService.delete
CacheDelete(cs, key, f) ==
    [cs EXCEPT
        !.memory_cache[key] = NoEntry,
        !.disk_cache[key] = IF f.disk_write THEN @ ELSE NoEntry,
        !.redis_store[key] =
            IF cs.redis_client /\ ~f.redis_write THEN NoEntry ELSE @]

\* A variant of clear_expired that keeps an entry expiring at this very instant.
CacheClearExpiredBefore(cs, t) ==
    [cs EXCEPT !.memory_cache =
        [k \in Keys |-> IF cs.memory_cache[k] # NoEntry
                           /\ cs.memory_cache[k].expires_at < t
                        THEN NoEntry ELSE cs.memory_cache[k]]]

\* CacheService.clear_expired
CacheClearExpired(cs, t) ==
    [cs EXCEPT !.memory_cache =
        [k \in Keys |-> IF cs.memory_cache[k] # NoEntry
                           /\ cs.memory_cache[k].expires_at <= t
                        THEN NoEntry ELSE cs.memory_cache[k]]]

\* The names of the search parameters, in the order Python sorts strings.
ParamNames == <<"limit", "name", "type">>
ParamRank(name) == CHOOSE i \in 1..Len(ParamNames) : ParamNames[i] = name

\* sorted(kwargs.items()): the (name, value) pairs by name; the names of a
\* dict differ, so no two values are ever compared
RECURSIVE InsertItem(_, _)
InsertItem(item, sorted) ==
    IF sorted = <<>> THEN <<item>>
    ELSE IF ParamRank(item[1]) <= ParamRank(Head(sorted)[1])
    THEN <<item>> \o sorted
    ELSE <<Head(sorted)>> \o InsertItem(item, Tail(sorted))

RECURSIVE SortedItems(_)
SortedItems(items) ==
    IF items = <<>> THEN <<>>
    ELSE InsertItem(Head(items), SortedItems(Tail(items)))

\* hashlib.md5(...).hexdigest(): a function of the text (collisions apart)
Md5(text) == <<"md5", text>>

\* A variant of the key generation that keeps the insertion order.
GenerateCacheKeyUnsorted(prefix, items) == <<prefix, Md5(<<"json", items>>)>>

\* CacheService._generate_cache_key; items is kwargs in insertion order
GenerateCacheKey(prefix, items) == <<prefix, Md5(<<"json", SortedItems(items)>>)>>

(***************************************************************************)
(* RateLimiter (services/rate_limiter.py)                                  *)
(***************************************************************************)
requests_per_minute == 60
burst_limit == 10
backoff_factor == 2
max_backoff == 300 * Second
\* the default of _clean_old_requests' window_seconds, and the 60.0 of
\* check_rate_limit's retry_after computations
window_seconds == 60 * Second
global_limit == 20
global_failure_threshold == 3
min_retry_after == 1 * Second

Clients == {"10.0.0.1", "10.0.0.2"}
Endpoints == {"get_by_id"}
\* _get_client_key: f"{client_ip}:{endpoint}"; no endpoint label holds a colon,
\* so the string determines the pair and the pair stands for it.
ClientKey(client_ip, endpoint) == <<client_ip, endpoint>>
ClientKeys == {ClientKey(c, e) : c \in Clients, e \in Endpoints}

\* A variant of the cleaning that removes nothing.
CleanNoRequests(request_times, t) == request_times

RECURSIVE CleanOldRequests(_, _)
\* _clean_old_requests: pop from the left while the oldest time is before the cutoff
CleanOldRequests(request_times, t) ==
    IF request_times # <<>> /\ Head(request_times) < t - window_seconds
    THEN CleanOldRequests(Tail(request_times), t)
    ELSE request_times

RECURSIVE Pow(_, _)
Pow(b, n) == IF n = 0 THEN 1 ELSE b * Pow(b, n - 1)

\* min(backoff_factor ** failure_count, max_backoff), in ms; the power stays
\* below the cap's overflow by stopping once it has passed max_backoff
BackoffSeconds(failure_count) ==
    IF failure_count >= 9 THEN max_backoff
    ELSE Min(Pow(backoff_factor, failure_count) * Second, max_backoff)

\* A variant of the retry-after hint with no floor.
WindowRetryAfterUnfloored(oldest, t) == window_seconds - (t - oldest)

\* The retry_after of the per-minute and of the global-window denials.
WindowRetryAfter(oldest, t) == Max(window_seconds - (t - oldest), min_retry_after)

\* A variant of the burst test that lets the count pass the limit by one.
BurstExceededPastLimit(count) == count > burst_limit

\* The burst test of check_rate_limit.
BurstExceeded(count) == count >= burst_limit

Denied(rl, after, why) ==
    [rl |-> rl, allowed |-> FALSE, retry_after |-> after, reason |-> why]

\* A variant of the check in which the global backoff is never consulted.
GlobalBackoffConsultedNever(rl, is_external_api) == FALSE

\* A variant of the test that consults the global backoff for local traffic too.
GlobalBackoffConsultedAlways(rl, is_external_api) == rl.global_backoff_until # None

\* the test that guards the global backoff: only external checks consult it
GlobalBackoffConsulted(rl, is_external_api) ==
    is_external_api /\ rl.global_backoff_until # None

\* A variant of the check in which no key is ever seen in backoff.
ClientBackoffNeverSet(rl, key) == FALSE

\* client_key in self.backoff_until
ClientBackoffSet(rl, key) == rl.backoff_until[key] # None

\* check_rate_limit: the limiter after the call, and (is_allowed, retry_after).
CheckRateLimit(rl, key, is_external_api, t) ==
    LET globalActive == GlobalBackoffConsulted(rl, is_external_api)
        rl1 == IF globalActive /\ ~(t < rl.global_backoff_until)
               THEN [rl EXCEPT !.global_backoff_until = None,
                               !.global_failure_count = 0]
               ELSE rl
        rl2 == IF ClientBackoffSet(rl1, key) /\ ~(t < rl1.backoff_until[key])
               THEN [rl1 EXCEPT !.backoff_until[key] = None,
                                !.failure_counts[key] = 0]
               ELSE rl1
        rl3 == [rl2 EXCEPT
                   !.request_history[key] = CleanOldRequests(@, t),
                   !.global_request_times =
                       IF is_external_api THEN CleanOldRequests(@, t) ELSE @]
        client_requests == rl3.request_history[key]
    IN  IF globalActive /\ t < rl.global_backoff_until
        THEN Denied(rl, rl.global_backoff_until - t, "global_backoff")
        ELSE IF ClientBackoffSet(rl1, key) /\ t < rl1.backoff_until[key]
        THEN Denied(rl1, rl1.backoff_until[key] - t, "backoff")
        ELSE IF BurstExceeded(Len(client_requests))
        THEN Denied(rl3, window_seconds, "burst")
        ELSE IF Len(client_requests) >= requests_per_minute
        THEN Denied(rl3, WindowRetryAfter(client_requests[1], t), "per_minute")
        ELSE IF is_external_api /\ Len(rl3.global_request_times) >= global_limit
        THEN Denied(rl3, WindowRetryAfter(rl3.global_request_times[1], t), "global_window")
        ELSE [rl |-> rl3, allowed |-> TRUE, retry_after |-> None, reason |-> "allowed"]

\* A variant of record_request in which a success clears the failures of the key.
RecordRequestClearingFailures(rl, key, is_external_api, t) ==
    [rl EXCEPT
        !.request_history[key] = Append(@, t),
        !.global_request_times = IF is_external_api THEN Append(@, t) ELSE @,
        !.failure_counts[key] = 0]

\* record_request
RecordRequest(rl, key, is_external_api, t) ==
    [rl EXCEPT
        !.request_history[key] = Append(@, t),
        !.global_request_times = IF is_external_api THEN Append(@, t) ELSE @]

\* backoff_factor ** failure_count is a float power: Python raises
\* OverflowError when the result passes the largest float, which for the
\* factor 2.0 is from the exponent float_max_exp on
float_max_exp == 1024
PowOverflows(failure_count) == failure_count >= float_max_exp

\* record_failure raises: at the caller's backoff, or at the global one
RecordFailureRaises(rl, key, is_external_api) ==
    LET failure_count == rl.failure_counts[key] + 1
        global_count == rl.global_failure_count + (IF is_external_api THEN 1 ELSE 0)
    IN  \/ PowOverflows(failure_count)
        \/ /\ is_external_api
           /\ global_count >= global_failure_threshold
           /\ PowOverflows(global_count)

\* record_failure; when it raises, what it assigned before stays assigned
RecordFailure(rl, key, is_external_api, t) ==
    LET failure_count == rl.failure_counts[key] + 1
        global_count == rl.global_failure_count + (IF is_external_api THEN 1 ELSE 0)
    IN  [rl EXCEPT
            !.failure_counts[key] = failure_count,
            !.global_failure_count = global_count,
            !.backoff_until[key] =
                IF PowOverflows(failure_count) THEN @
                ELSE t + BackoffSeconds(failure_count),
            !.global_backoff_until =
                IF /\ is_external_api
                   /\ global_count >= global_failure_threshold
                   /\ ~RecordFailureRaises(rl, key, is_external_api)
                THEN t + BackoffSeconds(global_count) ELSE @]

\* RateLimiter.__init__
NewRateLimiter ==
    [request_history |-> [k \in ClientKeys |-> <<>>],
     failure_counts |-> [k \in ClientKeys |-> 0],
     backoff_until |-> [k \in ClientKeys |-> None],
     global_request_times |-> <<>>,
     global_failure_count |-> 0,
     global_backoff_until |-> None]

(***************************************************************************)
(* RequestQueue (services/rate_limiter.py)                                 *)
(***************************************************************************)
max_concurrent == 5
request_delay == 500

\* RequestQueue.__init__
NewRequestQueue == [semaphore |-> max_concurrent, last_request_time |-> 0]

\* A variant of the semaphore that admits one caller with no permit left.
CanAcquireWithNoneLeft(q) == q.semaphore >= 0

\* asyncio.Semaphore.acquire returns at once only while a permit is free
CanAcquire(q) == q.semaphore > 0

\* The sleep execute_request takes before the call: 0 when none is due.
SpacingSleep(q, t) ==
    LET time_since_last == t - q.last_request_time
    IN  IF time_since_last < request_delay
        THEN request_delay - time_since_last ELSE 0

\* A variant of the completion that keeps the permit.
QueueCompleteKeepingPermit(q, t) ==
    [q EXCEPT !.last_request_time = t]

\* A variant of the completion that leaves last_request_time alone.
QueueCompleteUnstamped(q, t) ==
    [q EXCEPT !.semaphore = @ + 1]

\* The wrapped call returned or raised: both set last_request_time, and the
\* async with block releases the permit.
QueueComplete(q, t) ==
    [q EXCEPT !.last_request_time = t, !.semaphore = @ + 1]

(***************************************************************************)
(* ErrorHandler, FallbackStrategy, safe_api_call (services/error_handler.py)*)
(***************************************************************************)
Operations == {"api_request", "cache_operation", "card_search"}

\* RetryConfig.__init__'s defaults
default_max_attempts == 3
default_base_delay == 1000
max_delay == 60 * Second
exponential_base == 2
retryable_status_codes == {500, 502, 503, 504, 429}
retryable_exceptions ==
    {"TimeoutException", "ConnectTimeout", "ReadTimeout", "NetworkError", "ConnectionError"}

\* ErrorHandler.retry_configs.get(operation_type, RetryConfig()) 
RetryConfigOf(operation_type) ==
    CASE operation_type = "api_request" ->
             [max_attempts |-> 3, base_delay |-> 1000, jitter |-> TRUE]
      [] operation_type = "cache_operation" ->
             [max_attempts |-> 2, base_delay |-> 500, jitter |-> TRUE]
      [] operation_type = "database_operation" ->
             [max_attempts |-> 3, base_delay |-> 2000, jitter |-> TRUE]
      [] OTHER ->
             [max_attempts |-> default_max_attempts, base_delay |-> default_base_delay,
              jitter |-> TRUE]

\* The exceptions an operation raises: the class, and the response status of an
\* httpx.HTTPStatusError (None otherwise).
Err(cls, status) == [cls |-> cls, status |-> status]
NoError == Err("none", None)
Errors ==
    {Err("ConnectionError", None), Err("HTTPStatusError", 503),
     Err("HTTPStatusError", 404), Err("ValidationError", None)}

\* The classes an exception is an instance of (httpx's and Python's hierarchy).
Bases(cls) ==
    CASE cls = "ReadTimeout" -> {"ReadTimeout", "TimeoutException", "TransportError", "Exception"}
      [] cls = "ConnectTimeout" -> {"ConnectTimeout", "TimeoutException", "TransportError", "Exception"}
      [] cls = "ConnectError" -> {"ConnectError", "NetworkError", "TransportError", "Exception"}
      [] cls = "ConnectionError" -> {"ConnectionError", "OSError", "Exception"}
      [] OTHER -> {cls, "Exception"}
IsInstance(error, cls) == cls \in Bases(error.cls)

\* A variant of should_retry that takes every transport status for retryable.
ShouldRetryAnyStatus(error) ==
    \/ \E exc_type \in retryable_exceptions : IsInstance(error, exc_type)
    \/ IsInstance(error, "HTTPStatusError")

\* ErrorHandler.should_retry
ShouldRetry(error) ==
    IF \E exc_type \in retryable_exceptions : IsInstance(error, exc_type)
    THEN TRUE
    ELSE IF IsInstance(error, "HTTPStatusError")
    THEN error.status \in retryable_status_codes
    ELSE FALSE

\* create_standardized_error: the keys of default_messages
ErrorKinds ==
    {"network", "timeout", "rate_limit", "not_found", "server_error", "validation",
     "unknown"}

\* create_standardized_error: error_type
StandardizedErrorType(error) ==
    IF IsInstance(error, "TimeoutException") THEN "timeout"
    ELSE IF IsInstance(error, "NetworkError") THEN "network"
    ELSE IF IsInstance(error, "HTTPStatusError")
    THEN IF error.status = 404 THEN "not_found"
         ELSE IF error.status = 429 THEN "rate_limit"
         ELSE IF 500 <= error.status /\ error.status < 600 THEN "server_error"
         ELSE "unknown"
    ELSE "unknown"

\* create_standardized_error: the response, without its timestamp and details;
\* message_for is the kind whose default message it carries
CreateStandardizedError(error, operation, error_code) ==
    LET error_type == StandardizedErrorType(error)
    IN  [error |-> IF error_code # NoData THEN error_code ELSE error_type,
         message_for |-> error_type,
         operation |-> operation,
         retryable |-> ShouldRetry(error)]

\* random.random(), in thousandths
RandomDraws == {0, 999}

\* A variant of calculate_delay without the cap.
CalculateDelayUncapped(attempt, config, random) ==
    LET delay == config.base_delay * Pow(exponential_base, attempt - 1)
    IN  IF config.jitter
        THEN (delay * (500 + (random * 500) \div 1000)) \div 1000
        ELSE delay

\* ErrorHandler.calculate_delay, in ms
CalculateDelay(attempt, config, random) ==
    LET delay == Min(config.base_delay * Pow(exponential_base, attempt - 1), max_delay)
    IN  IF config.jitter
        THEN (delay * (500 + (random * 500) \div 1000)) \div 1000
        ELSE delay

\* A variant of the loop's end that allows one attempt more.
LastAttemptOneLate(attempt, config) == attempt = config.max_attempts + 1

\* The test that ends the retry loop after a failed attempt.
LastAttempt(attempt, config) == attempt = config.max_attempts

StopRetrying(error, attempt, config) ==
    ~ShouldRetry(error) \/ LastAttempt(attempt, config)

\* error_counts.get(operation_type, 0)
ErrorCount(eh, operation_type) ==
    IF eh.error_counts[operation_type] = None THEN 0 ELSE eh.error_counts[operation_type]

\* A variant of the success branch that leaves the count as it is.
KeepCountOnSuccess(eh, operation_type) == eh

\* The success branch of retry_with_backoff: reset the operation's count.
ResetOnSuccess(eh, operation_type) ==
    IF eh.error_counts[operation_type] # None
    THEN [eh EXCEPT !.error_counts[operation_type] = 0]
    ELSE eh

\* The except branch of retry_with_backoff: track the failure.
TrackFailure(eh, operation_type, t) ==
    [eh EXCEPT !.error_counts[operation_type] = ErrorCount(eh, operation_type) + 1,
               !.last_errors[operation_type] = t]

\* ErrorHandler.__init__
NewErrorHandler ==
    [error_counts |-> [o \in Operations |-> None],
     last_errors |-> [o \in Operations |-> None]]

\* FallbackStrategy.get_popular_cards_fallback, by card name
PopularCards == <<"Blue-Eyes White Dragon", "Dark Magician", "Elemental HERO Sparkman">>

\* The fallback_data argument: None, or a list.
NoFallbackData == [given |-> FALSE, items |-> <<>>]
FallbackData(items) == [given |-> TRUE, items |-> items]
FallbackArgs == {NoFallbackData, FallbackData(<<>>), FallbackData(<<"Kuriboh">>)}

\* A variant of the test for the canned list that forgets the operation.
UsesPopularCardsForAnyOperation(operation, fallback_data) == ~fallback_data.given

\* The test for the canned list in get_error_fallback_response.
UsesPopularCards(operation, fallback_data) ==
    operation = "card_search" /\ ~fallback_data.given

NoResponse == [data |-> <<>>, count |-> 0, error |-> NoError, fallback |-> FALSE,
               cached |-> FALSE]

\* FallbackStrategy.get_error_fallback_response; the error string embeds str(error)
GetErrorFallbackResponse(operation, error, fallback_data) ==
    LET fd == IF UsesPopularCards(operation, fallback_data)
              THEN FallbackData(PopularCards) ELSE fallback_data
        truthy == fd.given /\ fd.items # <<>>
    IN  [data |-> IF truthy THEN fd.items ELSE <<>>,
         count |-> IF truthy THEN Len(fd.items) ELSE 0,
         error |-> error,
         fallback |-> TRUE,
         cached |-> FALSE]

(***************************************************************************)
(* The components a specification leaves alone stay as constructed.        *)
(***************************************************************************)
StartTime == 1000

NoSet == [value |-> NoData, at |-> None, ttl |-> None]
NoGet == [key |-> "none", data |-> NoData, at |-> None]
NoCheck == [key |-> <<"none", "none">>, is_external |-> FALSE, allowed |-> TRUE,
            retry_after |-> None, reason |-> "none", at |-> None]
NoDenial == [key |-> <<"none", "none">>, at |-> None, retry_after |-> None,
             is_external |-> FALSE, reason |-> "none"]
NoDispatches == <<None, None>>

\* CacheService.__init__
NewCacheService(redis) ==
    [memory_cache |-> [k \in Keys |-> NoEntry],
     disk_cache |-> [k \in Keys |-> NoEntry],
     redis_store |-> [k \in Keys |-> NoEntry],
     redis_client |-> redis]

CacheIdle ==
    /\ cache_service = NewCacheService(FALSE)
    /\ faults_left = 0
    /\ set_log = [k \in Keys |-> NoSet]
    /\ last_get = NoGet

LimiterIdle ==
    /\ rate_limiter = NewRateLimiter
    /\ lim_result = NoCheck
    /\ denial = NoDenial
    /\ lim_budget = 0

QueueIdle ==
    /\ request_queue = NewRequestQueue
    /\ queue_calls = <<>>
    /\ dispatches = NoDispatches

OkOutcome == Err("ok", None)
\* A retry_with_backoff call not yet made.
IdleCall ==
    [pc |-> "idle", op |-> "none", safe |-> FALSE, fallback_data |-> NoFallbackData,
     attempt |-> 0, wake |-> None, invoked |-> 0, outcomes |-> <<>>,
     raised |-> NoError, value |-> "none", response |-> NoResponse]

RetryIdle ==
    /\ error_handler = NewErrorHandler
    /\ retry_calls = <<>>

RouteIdle ==
    /\ card_requests = <<>>
    /\ upstream_calls = <<>>

(***************************************************************************)
(* The cache on its own: get, set, delete and clear_expired in any order,  *)
(* process restarts that empty the in-process tier, and time passing.      *)
(***************************************************************************)
MaxCacheTime == 4201000
MaxFaults == 1
CacheSteps == {600 * Second, 3600 * Second}

InitCache ==
    /\ now = StartTime
    /\ faults_left = MaxFaults
    /\ \E redis \in BOOLEAN : cache_service = NewCacheService(redis)
    /\ set_log = [k \in Keys |-> NoSet]
    /\ last_get = NoGet
    /\ LimiterIdle
    /\ QueueIdle
    /\ RetryIdle
    /\ RouteIdle

\* The tiers that hold an entry of the key, expired or not.
TiersHolding(cs, key) ==
    {tier \in {"memory", "disk", "redis"} :
        \/ tier = "memory" /\ cs.memory_cache[key] # NoEntry
        \/ tier = "disk" /\ cs.disk_cache[key] # NoEntry
        \/ tier = "redis" /\ cs.redis_store[key] # NoEntry}

\* The tiers whose delete raises under the faults f (the in-process tier's
\* cannot; the remote tier's is called only when a client is connected).
TiersFailing(cs, f) ==
    {tier \in {"disk", "redis"} :
        \/ tier = "disk" /\ f.disk_write
        \/ tier = "redis" /\ cs.redis_client /\ f.redis_write}

\* What set_log keeps of a delete: the tiers that held the key before it and
\* the tiers whose delete raised.
Deleted(held, failed) ==
    [value |-> NoData, at |-> None, ttl |-> None, held |-> held, failed |-> failed]

Spend(f) == faults_left' = faults_left - (IF f = NoFaults THEN 0 ELSE 1)

Get(key) ==
    \E f \in FaultSets(faults_left) :
        LET r == CacheGet(cache_service, key, now, f)
        IN  /\ cache_service' = r.cs
            /\ last_get' = [key |-> key, data |-> r.data, at |-> now, faults |-> f]
            /\ Spend(f)
            /\ UNCHANGED <<now, set_log>>
            /\ UNCHANGED notCacheVars

Set(key, value, ttlArg) ==
    \E f \in FaultSets(faults_left) :
        /\ cache_service' = CacheSet(cache_service, key, value, ttlArg, now, f)
        /\ set_log' = [set_log EXCEPT ![key] =
               [value |-> value, at |-> now,
                ttl |-> IF ttlArg = None THEN default_ttl ELSE ttlArg,
                failed |-> TiersFailing(cache_service, f)]]
        /\ last_get' = NoGet
        /\ Spend(f)
        /\ UNCHANGED now
        /\ UNCHANGED notCacheVars

Delete(key) ==
    \E f \in FaultSets(faults_left) :
        /\ cache_service' = CacheDelete(cache_service, key, f)
        /\ set_log' = [set_log EXCEPT ![key] =
               Deleted(TiersHolding(cache_service, key),
                       TiersFailing(cache_service, f))]
        /\ last_get' = NoGet
        /\ Spend(f)
        /\ UNCHANGED now
        /\ UNCHANGED notCacheVars

ClearExpired ==
    /\ cache_service' = CacheClearExpired(cache_service, now)
    /\ last_get' = NoGet
    /\ UNCHANGED <<now, faults_left, set_log>>
    /\ UNCHANGED notCacheVars

\* The process restarts: CacheService.__init__ starts from an empty
\* memory_cache, the disk cache directory and redis keep their content.
Restart ==
    /\ cache_service' = [cache_service EXCEPT !.memory_cache = [k \in Keys |-> NoEntry]]
    /\ last_get' = NoGet
    /\ UNCHANGED <<now, faults_left, set_log>>
    /\ UNCHANGED notCacheVars

AdvanceCache ==
    \E d \in CacheSteps :
        /\ now + d <= MaxCacheTime
        /\ now' = now + d
        /\ last_get' = NoGet
        /\ UNCHANGED <<cache_service, faults_left, set_log>>
        /\ UNCHANGED notCacheVars

NextCache ==
    \/ \E k \in Keys : Get(k)
    \/ \E k \in Keys, v \in Values, ttl \in TtlArgs : Set(k, v, ttl)
    \/ \E k \in Keys : Delete(k)
    \/ ClearExpired
    \/ Restart
    \/ AdvanceCache

SpecCache == InitCache /\ [][NextCache]_vars

(***************************************************************************)
(* The rate limiter on its own: check_rate_limit, record_request and       *)
(* record_failure called in any order by two clients, while time passes.   *)
(***************************************************************************)
MaxEvents == 3
LimSteps == {2 * Second, 60 * Second}

\* The windows a run starts from: the requests recorded at the start time.
\* client: the requests of PrefilledKey, global: the external requests of other
\* clients, failures: the external failures of other clients.
Prefill(c, g, f) == [client |-> c, global |-> g, failures |-> f]
Prefills ==
    {Prefill(0, 0, 0),
     Prefill(burst_limit - 1, 0, 0),
     Prefill(burst_limit, 0, 0),
     Prefill(requests_per_minute - 1, 0, 0),
     Prefill(0, global_limit - 1, 0),
     Prefill(0, 0, global_failure_threshold - 1),
     Prefill(burst_limit - 1, global_limit - 1, global_failure_threshold - 1)}
PrefilledKey == ClientKey("10.0.0.1", "get_by_id")

InitLimiter ==
    /\ now = StartTime
    /\ \E pre \in Prefills :
         rate_limiter = [NewRateLimiter EXCEPT
             !.request_history[PrefilledKey] = [i \in 1..pre.client |-> StartTime],
             !.global_request_times = [i \in 1..pre.global |-> StartTime],
             !.global_failure_count = pre.failures]
    /\ lim_result = NoCheck
    /\ denial = NoDenial
    /\ lim_budget = MaxEvents
    /\ CacheIdle
    /\ QueueIdle
    /\ RetryIdle
    /\ RouteIdle

Check(client_ip, endpoint, is_external_api) ==
    LET key == ClientKey(client_ip, endpoint)
        r == CheckRateLimit(rate_limiter, key, is_external_api, now)
    IN  /\ rate_limiter' = r.rl
        /\ lim_result' = [key |-> key, is_external |-> is_external_api,
                          allowed |-> r.allowed, retry_after |-> r.retry_after,
                          reason |-> r.reason, at |-> now]
        /\ denial' = IF ~r.allowed
                      THEN [key |-> key, at |-> now, retry_after |-> r.retry_after,
                            is_external |-> is_external_api, reason |-> r.reason]
                      ELSE IF denial.key = key THEN NoDenial ELSE denial
        /\ UNCHANGED <<now, lim_budget>>
        /\ UNCHANGED notLimVars

\* What a recorded request or failure leaves of the denial kept: it is dropped
\* when it is the key's own, and with external traffic (the global state changed).
DenialsAfter(key, is_external_api) ==
    IF denial.key = key \/ is_external_api THEN NoDenial ELSE denial

Record(client_ip, endpoint, is_external_api) ==
    LET key == ClientKey(client_ip, endpoint)
    IN  /\ lim_budget > 0
        /\ rate_limiter' = RecordRequest(rate_limiter, key, is_external_api, now)
        /\ lim_budget' = lim_budget - 1
        /\ denial' = DenialsAfter(key, is_external_api)
        /\ lim_result' = NoCheck
        /\ UNCHANGED now
        /\ UNCHANGED notLimVars

Failure(client_ip, endpoint, is_external_api) ==
    LET key == ClientKey(client_ip, endpoint)
    IN  /\ lim_budget > 0
        /\ rate_limiter' = RecordFailure(rate_limiter, key, is_external_api, now)
        /\ lim_budget' = lim_budget - 1
        /\ denial' = DenialsAfter(key, is_external_api)
        /\ lim_result' = NoCheck
        /\ UNCHANGED now
        /\ UNCHANGED notLimVars

AdvanceLimiter ==
    \E d \in LimSteps :
        /\ lim_budget > 0
        /\ now' = now + d
        /\ lim_budget' = lim_budget - 1
        /\ lim_result' = NoCheck
        /\ UNCHANGED <<rate_limiter, denial>>
        /\ UNCHANGED notLimVars

NextLimiter ==
    \/ \E c \in Clients, e \in Endpoints, x \in BOOLEAN : Check(c, e, x)
    \/ \E c \in Clients, e \in Endpoints, x \in BOOLEAN : Record(c, e, x)
    \/ \E c \in Clients, e \in Endpoints, x \in BOOLEAN : Failure(c, e, x)
    \/ AdvanceLimiter

SpecLimiter == InitLimiter /\ [][NextLimiter]_vars

(***************************************************************************)
(* The request queue on its own: NumCallers coroutines each run            *)
(* execute_request once, interleaved at the awaits.                        *)
(***************************************************************************)
NumCallers == max_concurrent + 1
MaxQueueTime == 1750
QueueTick == request_delay \div 2
QueueCallers == 1..NumCallers

Dispatched(d, t) == <<d[2], t>>

\* The exception the request_func of caller p raises when it fails.
RequestError(p) ==
    IF p % 2 = 0 THEN Err("ConnectionError", None) ELSE Err("HTTPStatusError", 503)

InitQueue ==
    /\ now = StartTime
    /\ request_queue = NewRequestQueue
    /\ queue_calls = [p \in QueueCallers |-> [pc |-> "idle", wake |-> None]]
    /\ dispatches = NoDispatches
    /\ CacheIdle
    /\ LimiterIdle
    /\ RetryIdle
    /\ RouteIdle

\* async with self.semaphore, the spacing test, and either the start of the
\* sleep or the call of request_func: no await lies between them.
Admit(p) ==
    /\ queue_calls[p].pc = "idle"
    /\ CanAcquire(request_queue)
    /\ request_queue' = [request_queue EXCEPT !.semaphore = @ - 1]
    /\ LET sleep == SpacingSleep(request_queue, now)
       IN  IF sleep > 0
           THEN /\ queue_calls' = [queue_calls EXCEPT
                                      ![p] = [pc |-> "sleeping", wake |-> now + sleep]]
                /\ UNCHANGED dispatches
           ELSE /\ queue_calls' = [queue_calls EXCEPT
                                      ![p] = [pc |-> "calling", wake |-> None]]
                /\ dispatches' = Dispatched(dispatches, now)
    /\ UNCHANGED now
    /\ UNCHANGED notQueueVars

\* asyncio.sleep is over: request_func is called.
Wake(p) ==
    /\ queue_calls[p].pc = "sleeping"
    /\ now >= queue_calls[p].wake
    /\ queue_calls' = [queue_calls EXCEPT ![p] = [pc |-> "calling", wake |-> None]]
    /\ dispatches' = Dispatched(dispatches, now)
    /\ UNCHANGED <<now, request_queue>>
    /\ UNCHANGED notQueueVars

Return(p) ==
    /\ queue_calls[p].pc = "calling"
    /\ request_queue' = QueueComplete(request_queue, now)
    /\ queue_calls' = [queue_calls EXCEPT ![p] = [pc |-> "returned", wake |-> None]]
    /\ UNCHANGED <<now, dispatches>>
    /\ UNCHANGED notQueueVars

\* request_func raises; "raise e" hands the caught exception on.
Raise(p) ==
    /\ queue_calls[p].pc = "calling"
    /\ request_queue' = QueueComplete(request_queue, now)
    /\ queue_calls' = [queue_calls EXCEPT ![p] =
           [pc |-> "raised", wake |-> None, raised |-> RequestError(p)]]
    /\ UNCHANGED <<now, dispatches>>
    /\ UNCHANGED notQueueVars

AdvanceQueue ==
    /\ now + QueueTick <= MaxQueueTime
    /\ now' = now + QueueTick
    /\ UNCHANGED queueVars
    /\ UNCHANGED notQueueVars

NextQueue ==
    \/ \E p \in QueueCallers : Admit(p)
    \/ \E p \in QueueCallers : Wake(p)
    \/ \E p \in QueueCallers : Return(p)
    \/ \E p \in QueueCallers : Raise(p)
    \/ AdvanceQueue

SpecQueue == InitQueue /\ [][NextQueue]_vars

(***************************************************************************)
(* The retry loop on its own: two coroutines each run retry_with_backoff   *)
(* once, directly or under safe_api_call, around an operation that         *)
(* returns or raises as it likes on each attempt.                          *)
(***************************************************************************)
RetryCallers == {1, 2}
\* the operation types of the direct calls and of the safe_api_call calls
DirectOperations == {"api_request", "cache_operation"}
SafeOperations == {"api_request", "card_search"}
MaxRetryTime == 4000
RetryTick == default_base_delay

InitRetry ==
    /\ now = StartTime
    /\ error_handler = NewErrorHandler
    /\ retry_calls = [p \in RetryCallers |-> IdleCall]
    /\ CacheIdle
    /\ LimiterIdle
    /\ QueueIdle
    /\ RouteIdle

\* retry_with_backoff is entered (under safe_api_call when safe): attempt 1
\* calls func at once.
StartRetry(p, operation_type, safe, fallback_data) ==
    /\ retry_calls[p].pc = "idle"
    /\ retry_calls' = [retry_calls EXCEPT ![p] =
           [IdleCall EXCEPT !.pc = "calling", !.op = operation_type, !.safe = safe,
                            !.fallback_data = fallback_data, !.attempt = 1,
                            !.invoked = 1]]
    /\ UNCHANGED <<now, error_handler>>
    /\ UNCHANGED notRetryVars

FuncReturns(p) ==
    LET c == retry_calls[p]
    IN  /\ c.pc = "calling"
        /\ error_handler' = ResetOnSuccess(error_handler, c.op)
        /\ retry_calls' = [retry_calls EXCEPT ![p] =
               [c EXCEPT !.pc = "returned", !.outcomes = Append(@, OkOutcome),
                         !.value = "result"]]
        /\ UNCHANGED now
        /\ UNCHANGED notRetryVars

FuncRaises(p, error) ==
    LET c == retry_calls[p]
        config == RetryConfigOf(c.op)
        failed == [c EXCEPT !.outcomes = Append(@, error)]
    IN  /\ c.pc = "calling"
        /\ error_handler' = TrackFailure(error_handler, c.op, now)
        /\ IF StopRetrying(error, c.attempt, config)
           THEN IF c.safe
                THEN retry_calls' = [retry_calls EXCEPT ![p] =
                         [failed EXCEPT !.pc = "returned", !.value = "fallback",
                                        !.response = GetErrorFallbackResponse(
                                                         c.op, error, c.fallback_data)]]
                ELSE retry_calls' = [retry_calls EXCEPT ![p] =
                         [failed EXCEPT !.pc = "raised", !.raised = error]]
           ELSE \E random \in RandomDraws :
                    retry_calls' = [retry_calls EXCEPT ![p] =
                        [failed EXCEPT !.pc = "sleeping",
                                       !.wake = now + CalculateDelay(c.attempt, config, random)]]
        /\ UNCHANGED now
        /\ UNCHANGED notRetryVars

\* asyncio.sleep(delay) is over: the next attempt calls func.
WakeRetry(p) ==
    LET c == retry_calls[p]
    IN  /\ c.pc = "sleeping"
        /\ now >= c.wake
        /\ retry_calls' = [retry_calls EXCEPT ![p] =
               [c EXCEPT !.pc = "calling", !.wake = None, !.attempt = @ + 1,
                         !.invoked = @ + 1]]
        /\ UNCHANGED <<now, error_handler>>
        /\ UNCHANGED notRetryVars

AdvanceRetry ==
    /\ now + RetryTick <= MaxRetryTime
    /\ now' = now + RetryTick
    /\ UNCHANGED retryVars
    /\ UNCHANGED notRetryVars

NextRetry ==
    \/ \E p \in RetryCallers, o \in DirectOperations :
           StartRetry(p, o, FALSE, NoFallbackData)
    \/ \E p \in RetryCallers, o \in SafeOperations, fd \in FallbackArgs :
           StartRetry(p, o, TRUE, fd)
    \/ \E p \in RetryCallers : FuncReturns(p)
    \/ \E p \in RetryCallers, e \in Errors : FuncRaises(p, e)
    \/ \E p \in RetryCallers : WakeRetry(p)
    \/ AdvanceRetry

SpecRetry == InitRetry /\ [][NextRetry]_vars

(***************************************************************************)
(* get_card_by_id (routes/cards.py): concurrent requests for a card the    *)
(* database does not hold.  Each goes through the local check, the cache,  *)
(* the external check, and the retry loop whose every attempt passes       *)
(* through the request queue to the upstream provider.  A coroutine runs   *)
(* without interruption from one await that suspends it to the next.       *)
(***************************************************************************)
RouteCallers == {1, 2}
MaxRouteTime == 12000
RouteStart == 20 * request_delay
RouteTick == request_delay

CardKey == "card:1"
CardData == "cards"
\* what one upstream call can end in, besides the card: a transport error, an
\* error status, or a body without data (api_call raises HTTPException 404)
RouteErrors == Errors \cup {Err("HTTPException", 404)}

\* retry_after: what the 429 answer of a rejected request carries;
\* served_at: when the upstream's card was cached and returned
IdleRequest == [pc |-> "idle", client |-> "none", attempt |-> 0, wake |-> None,
                retry_after |-> None, served_at |-> None]

\* The traffic before the run: n external requests, one every request_delay,
\* each served on its first attempt and recorded as it returned; the first
\* burst_limit - 1 came from one client and the others from the second.
PastRequests(n) == [i \in 1..n |-> i * request_delay]
RouteTraffic == {0, global_limit - 1}
\* The external failures recorded before the run, by requests whose own
\* backoff has expired and been cleared since: with no traffic in the window,
\* none or one fewer than the global backoff needs.
RouteFailures(n) == IF n = 0 THEN {0, global_failure_threshold - 1} ELSE {0}

InitRoute ==
    /\ now = RouteStart
    /\ \E n \in RouteTraffic :
         LET past == PastRequests(n)
             m == Min(n, burst_limit - 1)
         IN  /\ \E failures \in RouteFailures(n) :
                  rate_limiter = [NewRateLimiter EXCEPT
                    !.request_history[ClientKey("10.0.0.1", "get_by_id")] =
                        SubSeq(past, 1, m),
                    !.request_history[ClientKey("10.0.0.2", "get_by_id")] =
                        SubSeq(past, m + 1, n),
                    !.global_request_times = past,
                    !.global_failure_count = failures]
             /\ request_queue = [NewRequestQueue EXCEPT
                    !.last_request_time = n * request_delay]
             /\ upstream_calls = past
    /\ card_requests = [p \in RouteCallers |-> IdleRequest]
    /\ CacheIdle
    /\ lim_result = NoCheck
    /\ denial = NoDenial
    /\ lim_budget = 0
    /\ queue_calls = <<>>
    /\ dispatches = NoDispatches
    /\ RetryIdle

\* A variant of apply_rate_limit that lets every request through.
RateLimitNeverExceeded(r) == FALSE

\* apply_rate_limit: the test on check_rate_limit's answer r that raises the
\* 429, and the request c it ends, which carries r's retry_after.
RateLimitExceeded(r) == ~r.allowed
TooManyRequests(c, r) == [c EXCEPT !.pc = "rejected", !.retry_after = r.retry_after]

\* A variant of the attempt that joins an upstream call already in flight for
\* the key instead of dispatching its own.
BeginAttemptCoalesced(p, c) ==
    LET sleep == SpacingSleep(request_queue, now)
        joined == \E q \in DOMAIN card_requests : card_requests[q].pc = "upstream"
    IN  /\ CanAcquire(request_queue)
        /\ request_queue' = [request_queue EXCEPT !.semaphore = @ - 1]
        /\ IF sleep > 0
           THEN /\ card_requests' = [card_requests EXCEPT ![p] =
                       [c EXCEPT !.pc = "spacing", !.wake = now + sleep]]
                /\ UNCHANGED upstream_calls
           ELSE /\ card_requests' = [card_requests EXCEPT ![p] =
                       [c EXCEPT !.pc = "upstream", !.wake = None]]
                /\ upstream_calls' = IF joined THEN upstream_calls
                                     ELSE Append(upstream_calls, now)

\* One attempt of the retry loop enters execute_request: it takes a permit
\* (there are no more requests than permits, so none waits for one) and either
\* sleeps for the spacing or sends the call upstream.
BeginAttempt(p, c) ==
    LET sleep == SpacingSleep(request_queue, now)
    IN  /\ CanAcquire(request_queue)
        /\ request_queue' = [request_queue EXCEPT !.semaphore = @ - 1]
        /\ IF sleep > 0
           THEN /\ card_requests' = [card_requests EXCEPT ![p] =
                       [c EXCEPT !.pc = "spacing", !.wake = now + sleep]]
                /\ UNCHANGED upstream_calls
           ELSE /\ card_requests' = [card_requests EXCEPT ![p] =
                       [c EXCEPT !.pc = "upstream", !.wake = None]]
                /\ upstream_calls' = Append(upstream_calls, now)

\* The handler from its entry to its first suspension.
Arrive(p, client_ip) ==
    LET key == ClientKey(client_ip, "get_by_id")
        c == [IdleRequest EXCEPT !.client = client_ip]
        local == CheckRateLimit(rate_limiter, key, FALSE, now)
        hit == CacheGet(cache_service, CardKey, now, NoFaults)
        external == CheckRateLimit(local.rl, key, TRUE, now)
    IN  /\ card_requests[p].pc = "idle"
        /\ IF RateLimitExceeded(local)
           THEN /\ rate_limiter' = local.rl
                /\ card_requests' = [card_requests EXCEPT ![p] =
                       TooManyRequests(c, local)]
                /\ UNCHANGED <<cache_service, request_queue, upstream_calls>>
           ELSE IF hit.data # NoData
           THEN /\ rate_limiter' = RecordRequest(local.rl, key, FALSE, now)
                /\ cache_service' = hit.cs
                /\ card_requests' = [card_requests EXCEPT ![p] =
                       [c EXCEPT !.pc = "cached"]]
                /\ UNCHANGED <<request_queue, upstream_calls>>
           ELSE IF RateLimitExceeded(external)
           THEN /\ rate_limiter' = external.rl
                /\ cache_service' = hit.cs
                /\ card_requests' = [card_requests EXCEPT ![p] =
                       TooManyRequests(c, external)]
                /\ UNCHANGED <<request_queue, upstream_calls>>
           ELSE /\ rate_limiter' = external.rl
                /\ cache_service' = hit.cs
                /\ BeginAttempt(p, [c EXCEPT !.attempt = 1])
        /\ UNCHANGED <<now, error_handler>>
        /\ UNCHANGED notRouteVars

\* The spacing sleep of execute_request is over: the call goes upstream.
Spaced(p) ==
    LET c == card_requests[p]
    IN  /\ c.pc = "spacing"
        /\ now >= c.wake
        /\ card_requests' = [card_requests EXCEPT ![p] =
               [c EXCEPT !.pc = "upstream", !.wake = None]]
        /\ upstream_calls' = Append(upstream_calls, now)
        /\ UNCHANGED <<now, cache_service, rate_limiter, request_queue, error_handler>>
        /\ UNCHANGED notRouteVars

\* The upstream call returns the card: the queue, the retry loop and the
\* handler run to the response.
UpstreamReturns(p) ==
    LET c == card_requests[p]
        key == ClientKey(c.client, "get_by_id")
    IN  /\ c.pc = "upstream"
        /\ request_queue' = QueueComplete(request_queue, now)
        /\ error_handler' = ResetOnSuccess(error_handler, "api_request")
        /\ cache_service' = CacheSet(cache_service, CardKey, CardData,
                                     card_data_ttl, now, NoFaults)
        /\ rate_limiter' = RecordRequest(rate_limiter, key, TRUE, now)
        /\ card_requests' = [card_requests EXCEPT ![p] =
               [c EXCEPT !.pc = "served", !.served_at = now]]
        /\ UNCHANGED <<now, upstream_calls>>
        /\ UNCHANGED notRouteVars

\* The upstream call fails: the retry loop sleeps before another attempt, or
\* gives up and the handler records the failure and raises.
UpstreamFails(p, error) ==
    LET c == card_requests[p]
        key == ClientKey(c.client, "get_by_id")
        config == RetryConfigOf("api_request")
    IN  /\ c.pc = "upstream"
        /\ request_queue' = QueueComplete(request_queue, now)
        /\ error_handler' = TrackFailure(error_handler, "api_request", now)
        /\ IF StopRetrying(error, c.attempt, config)
           THEN /\ rate_limiter' = RecordFailure(rate_limiter, key, TRUE, now)
                /\ card_requests' = [card_requests EXCEPT ![p] =
                       [c EXCEPT !.pc = "failed"]]
           ELSE /\ \E random \in RandomDraws :
                     card_requests' = [card_requests EXCEPT ![p] =
                         [c EXCEPT !.pc = "backoff",
                                   !.wake = now + CalculateDelay(c.attempt, config, random)]]
                /\ UNCHANGED rate_limiter
        /\ UNCHANGED <<now, cache_service, upstream_calls>>
        /\ UNCHANGED notRouteVars

\* The retry loop's sleep is over: the next attempt enters the queue.
RetryAgain(p) ==
    LET c == card_requests[p]
    IN  /\ c.pc = "backoff"
        /\ now >= c.wake
        /\ BeginAttempt(p, [c EXCEPT !.attempt = @ + 1])
        /\ UNCHANGED <<now, cache_service, rate_limiter, error_handler>>
        /\ UNCHANGED notRouteVars

AdvanceRoute ==
    /\ now + RouteTick <= MaxRouteTime
    /\ now' = now + RouteTick
    /\ UNCHANGED <<cache_service, rate_limiter, request_queue, error_handler>>
    /\ UNCHANGED routeVars
    /\ UNCHANGED notRouteVars

NextRoute ==
    \/ \E p \in RouteCallers, c \in Clients : Arrive(p, c)
    \/ \E p \in RouteCallers : Spaced(p)
    \/ \E p \in RouteCallers : UpstreamReturns(p)
    \/ \E p \in RouteCallers, e \in RouteErrors : UpstreamFails(p, e)
    \/ \E p \in RouteCallers : RetryAgain(p)
    \/ AdvanceRoute

SpecRoute == InitRoute /\ [][NextRoute]_vars

(***************************************************************************)
(* search_cards (routes/cards.py): concurrent searches with the same       *)
(* parameters.  The local database search either answers or raises; when   *)
(* it raises the handler falls back to the upstream provider through the   *)
(* external check, the retry loop and the request queue.                   *)
(***************************************************************************)
SearchEndpoints == {"search", "search_fallback"}
SearchKeys == {ClientKey(c, e) : c \in Clients, e \in SearchEndpoints}
\* cache_key_params of the searches, and the key they are cached under
SearchParams == <<<<"name", "dragon">>, <<"type", "None">>, <<"limit", "20">>>>
SearchCacheKey == GenerateCacheKey("card_search", SearchParams)
SearchResults == <<"Blue-Eyes White Dragon">>

LocalSearchFailed == "Local search failed. Showing external API results."
SearchUnavailable == "Search temporarily unavailable. Please try again later."

\* CardSearchResponse
SearchResponse(data, cached, error) ==
    [data |-> data, count |-> Len(data), cached |-> cached, error |-> error]
NoSearchResponse == SearchResponse(<<>>, FALSE, "none")

\* outcomes: what each upstream attempt of the request ended in
IdleSearch == [pc |-> "idle", client |-> "none", attempt |-> 0, wake |-> None,
               retry_after |-> None, outcomes |-> <<>>,
               response |-> NoSearchResponse]

InitSearch ==
    /\ now = RouteStart
    /\ rate_limiter =
           [request_history |-> [k \in SearchKeys |-> <<>>],
            failure_counts |-> [k \in SearchKeys |-> 0],
            backoff_until |-> [k \in SearchKeys |-> None],
            global_request_times |-> <<>>,
            global_failure_count |-> 0,
            global_backoff_until |-> None]
    /\ cache_service =
           [memory_cache |-> [k \in {SearchCacheKey} |-> NoEntry],
            disk_cache |-> [k \in {SearchCacheKey} |-> NoEntry],
            redis_store |-> [k \in {SearchCacheKey} |-> NoEntry],
            redis_client |-> FALSE]
    /\ request_queue = NewRequestQueue
    /\ upstream_calls = <<>>
    /\ card_requests = [p \in RouteCallers |-> IdleSearch]
    /\ faults_left = 0
    /\ set_log = [k \in Keys |-> NoSet]
    /\ last_get = NoGet
    /\ lim_result = NoCheck
    /\ denial = NoDenial
    /\ lim_budget = 0
    /\ queue_calls = <<>>
    /\ dispatches = NoDispatches
    /\ RetryIdle

\* A variant of the handler that goes upstream on a cache miss without trying
\* the database.
SearchArriveUpstreamFirst(p, client_ip, db_ok) ==
    LET key == ClientKey(client_ip, "search")
        fallback_key == ClientKey(client_ip, "search_fallback")
        c == [IdleSearch EXCEPT !.client = client_ip]
        local == CheckRateLimit(rate_limiter, key, FALSE, now)
        hit == CacheGet(cache_service, SearchCacheKey, now, NoFaults)
        failed == local.rl
        external == CheckRateLimit(failed, fallback_key, TRUE, now)
    IN  /\ card_requests[p].pc = "idle"
        /\ IF RateLimitExceeded(local)
           THEN /\ rate_limiter' = local.rl
                /\ card_requests' = [card_requests EXCEPT ![p] =
                       TooManyRequests(c, local)]
                /\ UNCHANGED <<cache_service, request_queue, upstream_calls>>
           ELSE IF hit.data # NoData
           THEN /\ rate_limiter' = RecordRequest(local.rl, key, FALSE, now)
                /\ cache_service' = hit.cs
                /\ card_requests' = [card_requests EXCEPT ![p] =
                       [c EXCEPT !.pc = "cached",
                                 !.response = SearchResponse(hit.data, TRUE, "none")]]
                /\ UNCHANGED <<request_queue, upstream_calls>>
           ELSE IF RateLimitExceeded(external)
           THEN /\ rate_limiter' = external.rl
                /\ cache_service' = hit.cs
                /\ card_requests' = [card_requests EXCEPT ![p] =
                       TooManyRequests(c, external)]
                /\ UNCHANGED <<request_queue, upstream_calls>>
           ELSE /\ rate_limiter' = external.rl
                /\ cache_service' = hit.cs
                /\ BeginAttempt(p, [c EXCEPT !.attempt = 1])
        /\ UNCHANGED <<now, error_handler>>
        /\ UNCHANGED notRouteVars

\* The handler from its entry to its first suspension; db_ok: the local
\* database search answers (it raises otherwise).
SearchArrive(p, client_ip, db_ok) ==
    LET key == ClientKey(client_ip, "search")
        fallback_key == ClientKey(client_ip, "search_fallback")
        c == [IdleSearch EXCEPT !.client = client_ip]
        local == CheckRateLimit(rate_limiter, key, FALSE, now)
        hit == CacheGet(cache_service, SearchCacheKey, now, NoFaults)
        failed == RecordFailure(local.rl, key, FALSE, now)
        external == CheckRateLimit(failed, fallback_key, TRUE, now)
    IN  /\ card_requests[p].pc = "idle"
        /\ IF RateLimitExceeded(local)
           THEN /\ rate_limiter' = local.rl
                /\ card_requests' = [card_requests EXCEPT ![p] =
                       TooManyRequests(c, local)]
                /\ UNCHANGED <<cache_service, request_queue, upstream_calls>>
           ELSE IF hit.data # NoData
           THEN /\ rate_limiter' = RecordRequest(local.rl, key, FALSE, now)
                /\ cache_service' = hit.cs
                /\ card_requests' = [card_requests EXCEPT ![p] =
                       [c EXCEPT !.pc = "cached",
                                 !.response = SearchResponse(hit.data, TRUE, "none")]]
                /\ UNCHANGED <<request_queue, upstream_calls>>
           ELSE IF db_ok
           THEN /\ rate_limiter' = RecordRequest(local.rl, key, FALSE, now)
                /\ cache_service' = CacheSet(hit.cs, SearchCacheKey, SearchResults,
                                             search_results_ttl, now, NoFaults)
                /\ card_requests' = [card_requests EXCEPT ![p] =
                       [c EXCEPT !.pc = "served",
                                 !.response = SearchResponse(SearchResults, FALSE, "none")]]
                /\ UNCHANGED <<request_queue, upstream_calls>>
           ELSE IF RateLimitExceeded(external)
           THEN /\ rate_limiter' = external.rl
                /\ cache_service' = hit.cs
                /\ card_requests' = [card_requests EXCEPT ![p] =
                       TooManyRequests(c, external)]
                /\ UNCHANGED <<request_queue, upstream_calls>>
           ELSE /\ rate_limiter' = external.rl
                /\ cache_service' = hit.cs
                /\ BeginAttempt(p, [c EXCEPT !.attempt = 1])
        /\ UNCHANGED <<now, error_handler>>
        /\ UNCHANGED notRouteVars

\* The upstream search answers: the queue, the retry loop and the handler run
\* to the response.
SearchUpstreamReturns(p) ==
    LET c == card_requests[p]
        key == ClientKey(c.client, "search_fallback")
    IN  /\ c.pc = "upstream"
        /\ request_queue' = QueueComplete(request_queue, now)
        /\ error_handler' = ResetOnSuccess(error_handler, "api_request")
        /\ cache_service' = CacheSet(cache_service, SearchCacheKey, SearchResults,
                                     search_results_ttl, now, NoFaults)
        /\ rate_limiter' = RecordRequest(rate_limiter, key, TRUE, now)
        /\ card_requests' = [card_requests EXCEPT ![p] =
               [c EXCEPT !.pc = "served", !.outcomes = Append(@, OkOutcome),
                         !.response = SearchResponse(SearchResults, FALSE,
                                                     LocalSearchFailed)]]
        /\ UNCHANGED <<now, upstream_calls>>
        /\ UNCHANGED notRouteVars

\* The response of search_cards when the retry loop has raised.
SearchFailureResponse(error) == SearchResponse(<<>>, FALSE, SearchUnavailable)

\* The upstream search fails: the retry loop sleeps before another attempt,
\* or raises and the handler records the failure and answers.
SearchUpstreamFails(p, error) ==
    LET c == card_requests[p]
        key == ClientKey(c.client, "search_fallback")
        config == RetryConfigOf("api_request")
        failed == [c EXCEPT !.outcomes = Append(@, error)]
    IN  /\ c.pc = "upstream"
        /\ request_queue' = QueueComplete(request_queue, now)
        /\ error_handler' = TrackFailure(error_handler, "api_request", now)
        /\ IF StopRetrying(error, c.attempt, config)
           THEN /\ rate_limiter' = RecordFailure(rate_limiter, key, TRUE, now)
                /\ card_requests' = [card_requests EXCEPT ![p] =
                       [failed EXCEPT !.pc = "failed",
                                      !.response = SearchFailureResponse(error)]]
           ELSE /\ \E random \in RandomDraws :
                     card_requests' = [card_requests EXCEPT ![p] =
                         [failed EXCEPT !.pc = "backoff",
                                        !.wake = now + CalculateDelay(c.attempt, config, random)]]
                /\ UNCHANGED rate_limiter
        /\ UNCHANGED <<now, cache_service, upstream_calls>>
        /\ UNCHANGED notRouteVars

NextSearch ==
    \/ \E p \in RouteCallers, c \in Clients, db_ok \in BOOLEAN : SearchArrive(p, c, db_ok)
    \/ \E p \in RouteCallers : Spaced(p)
    \/ \E p \in RouteCallers : SearchUpstreamReturns(p)
    \/ \E p \in RouteCallers, e \in Errors : SearchUpstreamFails(p, e)
    \/ \E p \in RouteCallers : RetryAgain(p)
    \/ AdvanceRoute

SpecSearch == InitSearch /\ [][NextSearch]_vars

(***************************************************************************)
(* record_failure on its own: failures recorded one after the other with   *)
(* no check_rate_limit in between, so that no count is reset.  Here        *)
(* lim_result holds the record_failure call that has just returned and     *)
(* denial the one before it.                                               *)
(***************************************************************************)
MaxFailureCalls == 4
\* the failures recorded for PrefilledKey before the run, all at StartTime
EarlierFailures == {0, 7, float_max_exp - 2}

\* A record_failure call: the counts it computed, the backoff durations it
\* set (None for one it did not set), and whether it raised.
FailureCall(key, is_external_api, rl, t, raised) ==
    [key |-> key, is_external |-> is_external_api,
     count |-> rl.failure_counts[key],
     backoff |-> IF PowOverflows(rl.failure_counts[key]) THEN None
                 ELSE rl.backoff_until[key] - t,
     global_count |-> rl.global_failure_count,
     global_backoff |->
         IF is_external_api /\ rl.global_failure_count >= global_failure_threshold
            /\ ~raised
         THEN rl.global_backoff_until - t ELSE None,
     raised |-> raised]
NoFailureCall ==
    [key |-> <<"none", "none">>, is_external |-> FALSE, count |-> 0, backoff |-> None,
     global_count |-> 0, global_backoff |-> None, raised |-> FALSE]

InitBackoff ==
    /\ now = StartTime
    /\ \E n \in EarlierFailures, external \in BOOLEAN :
         LET g == IF external THEN n ELSE 0
         IN  rate_limiter = [NewRateLimiter EXCEPT
                 !.failure_counts[PrefilledKey] = n,
                 !.backoff_until[PrefilledKey] =
                     IF n > 0 THEN StartTime + BackoffSeconds(n) ELSE None,
                 !.global_failure_count = g,
                 !.global_backoff_until =
                     IF g >= global_failure_threshold
                     THEN StartTime + BackoffSeconds(g) ELSE None]
    /\ lim_result = NoFailureCall
    /\ denial = NoFailureCall
    /\ lim_budget = MaxFailureCalls
    /\ CacheIdle
    /\ QueueIdle
    /\ RetryIdle
    /\ RouteIdle

FailureRecorded(client_ip, endpoint, is_external_api) ==
    LET key == ClientKey(client_ip, endpoint)
        rl == RecordFailure(rate_limiter, key, is_external_api, now)
    IN  /\ lim_budget > 0
        /\ rate_limiter' = rl
        /\ lim_result' = FailureCall(key, is_external_api, rl, now,
                             RecordFailureRaises(rate_limiter, key, is_external_api))
        /\ denial' = lim_result
        /\ lim_budget' = lim_budget - 1
        /\ UNCHANGED now
        /\ UNCHANGED notLimVars

AdvanceBackoff ==
    \E d \in LimSteps :
        /\ lim_budget > 0
        /\ now' = now + d
        /\ lim_budget' = lim_budget - 1
        /\ UNCHANGED <<rate_limiter, lim_result, denial>>
        /\ UNCHANGED notLimVars

NextBackoff ==
    \/ \E c \in Clients, e \in Endpoints, x \in BOOLEAN : FailureRecorded(c, e, x)
    \/ AdvanceBackoff

SpecBackoff == InitBackoff /\ [][NextBackoff]_vars

(***************************************************************************)
(* The search-result helpers of the cache on their own: results are stored *)
(* under parameters given in one insertion order and looked up under       *)
(* parameters given in any.  Here set_log holds the last                   *)
(* cache_card_search_results call and last_get the last                    *)
(* get_card_search_results call since.                                     *)
(***************************************************************************)
SearchNames == {"dragon", "magician"}
\* the search parameter sets, each a set of (name, value) pairs
SearchParamSets ==
    {{<<"name", n>>, <<"type", "None">>, <<"limit", "20">>} : n \in SearchNames}
\* a dict holding the pairs, in each insertion order
InsertionOrders(pairs) ==
    {o \in [1..Cardinality(pairs) -> pairs] :
        \A i, j \in 1..Cardinality(pairs) : o[i] = o[j] => i = j}
ParamOrders == UNION {InsertionOrders(pairs) : pairs \in SearchParamSets}
SearchKeyDomain == {<<"card_search", Md5(<<"json", o>>)>> : o \in ParamOrders}
ResultsOf(items) == <<"results for", CHOOSE n \in SearchNames : \E i \in DOMAIN items : items[i] = <<"name", n>>>>
KeyTick == search_results_ttl \div 2
MaxKeyTime == StartTime + search_results_ttl
NoSearchStored == [params |-> <<>>, value |-> NoData, at |-> None]
NoSearchLookup == [params |-> <<>>, data |-> NoData, at |-> None]

InitKeys ==
    /\ now = StartTime
    /\ cache_service =
           [memory_cache |-> [k \in SearchKeyDomain |-> NoEntry],
            disk_cache |-> [k \in SearchKeyDomain |-> NoEntry],
            redis_store |-> [k \in SearchKeyDomain |-> NoEntry],
            redis_client |-> FALSE]
    /\ faults_left = 0
    /\ set_log = NoSearchStored
    /\ last_get = NoSearchLookup
    /\ LimiterIdle
    /\ QueueIdle
    /\ RetryIdle
    /\ RouteIdle

\* cache_card_search_results(search_params, results)
CacheCardSearchResults(search_params, results) ==
    LET key == GenerateCacheKey("card_search", search_params)
    IN  /\ cache_service' = CacheSet(cache_service, key, results,
                                     search_results_ttl, now, NoFaults)
        /\ set_log' = [params |-> search_params, value |-> results, at |-> now]
        /\ last_get' = NoSearchLookup
        /\ UNCHANGED <<now, faults_left>>
        /\ UNCHANGED notCacheVars

\* get_card_search_results(search_params)
GetCardSearchResults(search_params) ==
    LET key == GenerateCacheKey("card_search", search_params)
        r == CacheGet(cache_service, key, now, NoFaults)
    IN  /\ cache_service' = r.cs
        /\ last_get' = [params |-> search_params, data |-> r.data, at |-> now]
        /\ UNCHANGED <<now, faults_left, set_log>>
        /\ UNCHANGED notCacheVars

AdvanceKeys ==
    /\ now + KeyTick <= MaxKeyTime
    /\ now' = now + KeyTick
    /\ last_get' = NoSearchLookup
    /\ UNCHANGED <<cache_service, faults_left, set_log>>
    /\ UNCHANGED notCacheVars

NextKeys ==
    \/ \E o \in ParamOrders : CacheCardSearchResults(o, ResultsOf(o))
    \/ \E o \in ParamOrders : GetCardSearchResults(o)
    \/ AdvanceKeys

SpecKeys == InitKeys /\ [][NextKeys]_vars

(***************************************************************************)
(* create_standardized_error on its own: raw errors are standardized one   *)
(* after the other.  Here retry_calls is the log of the calls made: the    *)
(* raw error and the response.                                             *)
(***************************************************************************)
MaxStandardized == 2
RawStatuses == {400, 404, 429, 500, 503, 599}
RawErrors ==
    {Err(cls, None) : cls \in {"ConnectionError", "ConnectError", "ReadTimeout",
                               "ConnectTimeout", "TimeoutError", "ValidationError"}}
    \cup {Err("HTTPStatusError", status) : status \in RawStatuses}
\* the operation names the callers pass (routes/cards.py)
StandardizedOperations == {"get_by_id", "random"}

InitErrors ==
    /\ now = StartTime
    /\ error_handler = NewErrorHandler
    /\ retry_calls = <<>>
    /\ CacheIdle
    /\ LimiterIdle
    /\ QueueIdle
    /\ RouteIdle

\* one call; no caller passes an error_code
Standardize(error, operation) ==
    /\ Len(retry_calls) < MaxStandardized
    /\ retry_calls' = Append(retry_calls,
           [raw |-> error,
            standardized |-> CreateStandardizedError(error, operation, NoData)])
    /\ UNCHANGED <<now, error_handler>>
    /\ UNCHANGED notRetryVars

NextErrors ==
    \E e \in RawErrors, o \in StandardizedOperations : Standardize(e, o)

SpecErrors == InitErrors /\ [][NextErrors]_vars

(***************************************************************************)
(* get_search_suggestions: the handler of GET /cards/search/suggestions,   *)
(* with the same shape as search_cards: local check, cache lookup, local   *)
(* database search, and the upstream provider when that search raises.     *)
(***************************************************************************)
SuggestEndpoints == {"suggestions", "suggestions_fallback"}
SuggestKeys == {ClientKey(c, e) : c \in Clients, e \in SuggestEndpoints}
\* the partial names asked for: one shorter than two characters, one not
Queries == {"d", "dr"}
\* f"suggestions:{query.lower()}:{limit}" of the query "dr" with limit 10
SuggestCacheKey == "suggestions:dr:10"
\* what the local database search of a request does: it raises, or it finds
\* no card, or some
DbOutcomes == {"raises", "empty", "found"}
Suggestions == <<"Dragon Master Knight">>
SuggestionsUnavailable == "Suggestions temporarily unavailable. Please try again later."

\* The payload: its keys, and the values of "suggestions" and "error".
SuggestResponse(suggestions, error) ==
    [keys |-> IF error = "none" THEN {"suggestions"} ELSE {"suggestions", "error"},
     suggestions |-> suggestions, error |-> error]
NoSuggestResponse == [keys |-> {}, suggestions |-> <<>>, error |-> "none"]
IdleSuggest == [IdleSearch EXCEPT !.response = NoSuggestResponse]

InitSuggest ==
    /\ now = RouteStart
    /\ rate_limiter =
           [request_history |-> [k \in SuggestKeys |-> <<>>],
            failure_counts |-> [k \in SuggestKeys |-> 0],
            backoff_until |-> [k \in SuggestKeys |-> None],
            global_request_times |-> <<>>,
            global_failure_count |-> 0,
            global_backoff_until |-> None]
    /\ cache_service =
           [memory_cache |-> [k \in {SuggestCacheKey} |-> NoEntry],
            disk_cache |-> [k \in {SuggestCacheKey} |-> NoEntry],
            redis_store |-> [k \in {SuggestCacheKey} |-> NoEntry],
            redis_client |-> FALSE]
    /\ request_queue = NewRequestQueue
    /\ upstream_calls = <<>>
    /\ card_requests = [p \in RouteCallers |-> IdleSuggest]
    /\ faults_left = 0
    /\ set_log = [k \in Keys |-> NoSet]
    /\ last_get = NoGet
    /\ lim_result = NoCheck
    /\ denial = NoDenial
    /\ lim_budget = 0
    /\ queue_calls = <<>>
    /\ dispatches = NoDispatches
    /\ RetryIdle

\* The handler from its entry to its first suspension.  A cached list counts
\* as a hit only when it is not empty ("if cached_suggestions:").
SuggestArrive(p, client_ip, query, db) ==
    LET key == ClientKey(client_ip, "suggestions")
        fallback_key == ClientKey(client_ip, "suggestions_fallback")
        c == [IdleSuggest EXCEPT !.client = client_ip]
        local == CheckRateLimit(rate_limiter, key, FALSE, now)
        hit == CacheGet(cache_service, SuggestCacheKey, now, NoFaults)
        found == IF db = "found" THEN Suggestions ELSE <<>>
        failed == RecordFailure(local.rl, key, FALSE, now)
        external == CheckRateLimit(failed, fallback_key, TRUE, now)
    IN  /\ card_requests[p].pc = "idle"
        /\ IF RateLimitExceeded(local)
           THEN /\ rate_limiter' = local.rl
                /\ card_requests' = [card_requests EXCEPT ![p] =
                       TooManyRequests(c, local)]
                /\ UNCHANGED <<cache_service, request_queue, upstream_calls>>
           ELSE IF query = "d"
           THEN /\ rate_limiter' = local.rl
                /\ card_requests' = [card_requests EXCEPT ![p] =
                       [c EXCEPT !.pc = "served",
                                 !.response = SuggestResponse(<<>>, "none")]]
                /\ UNCHANGED <<cache_service, request_queue, upstream_calls>>
           ELSE IF hit.data # NoData /\ hit.data # <<>>
           THEN /\ rate_limiter' = local.rl
                /\ cache_service' = hit.cs
                /\ card_requests' = [card_requests EXCEPT ![p] =
                       [c EXCEPT !.pc = "cached",
                                 !.response = SuggestResponse(hit.data, "none")]]
                /\ UNCHANGED <<request_queue, upstream_calls>>
           ELSE IF db # "raises"
           THEN /\ rate_limiter' = RecordRequest(local.rl, key, FALSE, now)
                /\ cache_service' = CacheSet(hit.cs, SuggestCacheKey, found,
                                             suggestions_ttl, now, NoFaults)
                /\ card_requests' = [card_requests EXCEPT ![p] =
                       [c EXCEPT !.pc = "served",
                                 !.response = SuggestResponse(found, "none")]]
                /\ UNCHANGED <<request_queue, upstream_calls>>
           ELSE IF RateLimitExceeded(external)
           THEN /\ rate_limiter' = external.rl
                /\ cache_service' = hit.cs
                /\ card_requests' = [card_requests EXCEPT ![p] =
                       TooManyRequests(c, external)]
                /\ UNCHANGED <<request_queue, upstream_calls>>
           ELSE /\ rate_limiter' = external.rl
                /\ cache_service' = hit.cs
                /\ BeginAttempt(p, [c EXCEPT !.attempt = 1])
        /\ UNCHANGED <<now, error_handler>>
        /\ UNCHANGED notRouteVars

SuggestUpstreamReturns(p) ==
    LET c == card_requests[p]
        key == ClientKey(c.client, "suggestions_fallback")
    IN  /\ c.pc = "upstream"
        /\ request_queue' = QueueComplete(request_queue, now)
        /\ error_handler' = ResetOnSuccess(error_handler, "api_request")
        /\ cache_service' = CacheSet(cache_service, SuggestCacheKey, Suggestions,
                                     suggestions_ttl, now, NoFaults)
        /\ rate_limiter' = RecordRequest(rate_limiter, key, TRUE, now)
        /\ card_requests' = [card_requests EXCEPT ![p] =
               [c EXCEPT !.pc = "served", !.outcomes = Append(@, OkOutcome),
                         !.response = SuggestResponse(Suggestions, LocalSearchFailed)]]
        /\ UNCHANGED <<now, upstream_calls>>
        /\ UNCHANGED notRouteVars

SuggestUpstreamFails(p, error) ==
    LET c == card_requests[p]
        key == ClientKey(c.client, "suggestions_fallback")
        config == RetryConfigOf("api_request")
        failed == [c EXCEPT !.outcomes = Append(@, error)]
    IN  /\ c.pc = "upstream"
        /\ request_queue' = QueueComplete(request_queue, now)
        /\ error_handler' = TrackFailure(error_handler, "api_request", now)
        /\ IF StopRetrying(error, c.attempt, config)
           THEN /\ rate_limiter' = RecordFailure(rate_limiter, key, TRUE, now)
                /\ card_requests' = [card_requests EXCEPT ![p] =
                       [failed EXCEPT !.pc = "failed",
                                      !.response = SuggestResponse(<<>>,
                                                       SuggestionsUnavailable)]]
           ELSE /\ \E random \in RandomDraws :
                     card_requests' = [card_requests EXCEPT ![p] =
                         [failed EXCEPT !.pc = "backoff",
                                        !.wake = now + CalculateDelay(c.attempt, config, random)]]
                /\ UNCHANGED rate_limiter
        /\ UNCHANGED <<now, cache_service, upstream_calls>>
        /\ UNCHANGED notRouteVars

NextSuggest ==
    \/ \E p \in RouteCallers, c \in Clients, q \in Queries, db \in DbOutcomes :
           SuggestArrive(p, c, q, db)
    \/ \E p \in RouteCallers : Spaced(p)
    \/ \E p \in RouteCallers : SuggestUpstreamReturns(p)
    \/ \E p \in RouteCallers, e \in Errors : SuggestUpstreamFails(p, e)
    \/ \E p \in RouteCallers : RetryAgain(p)
    \/ AdvanceRoute

SpecSuggest == InitSuggest /\ [][NextSuggest]_vars

(***************************************************************************)
(* Concurrent requests of one client on one endpoint: each handler calls   *)
(* check_rate_limit, awaits its work (the upstream call), and then calls   *)
(* record_request.  The requests are numbered in their order of arrival.   *)
(***************************************************************************)
ConcurrentRequests == 1..(burst_limit + 1)
AdmitKey == ClientKey("10.0.0.1", "get_by_id")
\* one step of the clock takes every recorded time out of the window
AdmitTick == window_seconds + Second
MaxAdmitTime == StartTime + AdmitTick
notAdmitVars == <<cacheVars, queueVars, retryVars, lim_result, denial, lim_budget,
                  upstream_calls>>

InitAdmit ==
    /\ now = StartTime
    /\ rate_limiter = NewRateLimiter
    /\ lim_result = NoCheck
    /\ denial = NoDenial
    /\ lim_budget = 0
    /\ card_requests = [p \in ConcurrentRequests |-> [pc |-> "idle", at |-> None]]
    /\ upstream_calls = <<>>
    /\ CacheIdle
    /\ QueueIdle
    /\ RetryIdle

\* apply_rate_limit of the handler: the request is admitted, or refused with 429.
AdmitCheck(p) ==
    LET r == CheckRateLimit(rate_limiter, AdmitKey, TRUE, now)
    IN  /\ card_requests[p].pc = "idle"
        /\ p > 1 => card_requests[p - 1].pc # "idle"
        /\ rate_limiter' = r.rl
        /\ card_requests' = [card_requests EXCEPT ![p] =
               [pc |-> IF r.allowed THEN "working" ELSE "rejected", at |-> now]]
        /\ UNCHANGED now
        /\ UNCHANGED notAdmitVars

\* the work is over: record_request_success of the handler
AdmitRecord(p) ==
    /\ card_requests[p].pc = "working"
    /\ rate_limiter' = RecordRequest(rate_limiter, AdmitKey, TRUE, now)
    /\ card_requests' = [card_requests EXCEPT ![p].pc = "recorded"]
    /\ UNCHANGED now
    /\ UNCHANGED notAdmitVars

AdvanceAdmit ==
    /\ now + AdmitTick <= MaxAdmitTime
    /\ now' = now + AdmitTick
    /\ UNCHANGED <<rate_limiter, card_requests>>
    /\ UNCHANGED notAdmitVars

NextAdmit ==
    \/ \E p \in ConcurrentRequests : AdmitCheck(p)
    \/ \E p \in ConcurrentRequests : AdmitRecord(p)
    \/ AdvanceAdmit

SpecAdmit == InitAdmit /\ [][NextAdmit]_vars

(***************************************************************************)
(* Requests that fail one after the other: each calls check_rate_limit,    *)
(* is admitted, does its work, which fails, and calls record_failure       *)
(* before the next request arrives.  Here denial counts the failed         *)
(* requests of each key, and lim_result is the last of them.               *)
(***************************************************************************)
MaxFailingEvents == 5
FailedRequest(key, n, rl, t) ==
    [key |-> key, n |-> n, count |-> rl.failure_counts[key],
     backoff |-> rl.backoff_until[key] - t]
NoFailedRequest == [key |-> <<"none", "none">>, n |-> 0, count |-> 0, backoff |-> None]

InitFailing ==
    /\ now = StartTime
    /\ rate_limiter = NewRateLimiter
    /\ lim_result = NoFailedRequest
    /\ denial = [k \in ClientKeys |-> 0]
    /\ lim_budget = MaxFailingEvents
    /\ CacheIdle
    /\ QueueIdle
    /\ RetryIdle
    /\ RouteIdle

\* A request that passes the check and then fails.
RequestFails(client_ip, endpoint, is_external_api) ==
    LET key == ClientKey(client_ip, endpoint)
        r == CheckRateLimit(rate_limiter, key, is_external_api, now)
        rl == RecordFailure(r.rl, key, is_external_api, now)
    IN  /\ lim_budget > 0
        /\ r.allowed
        /\ rate_limiter' = rl
        /\ denial' = [denial EXCEPT ![key] = @ + 1]
        /\ lim_result' = FailedRequest(key, denial[key] + 1, rl, now)
        /\ lim_budget' = lim_budget - 1
        /\ UNCHANGED now
        /\ UNCHANGED notLimVars

\* A request the check refuses: it does no work, so it cannot fail.
RequestRefused(client_ip, endpoint, is_external_api) ==
    LET key == ClientKey(client_ip, endpoint)
        r == CheckRateLimit(rate_limiter, key, is_external_api, now)
    IN  /\ lim_budget > 0
        /\ ~r.allowed
        /\ rate_limiter' = r.rl
        /\ lim_budget' = lim_budget - 1
        /\ UNCHANGED <<now, lim_result, denial>>
        /\ UNCHANGED notLimVars

AdvanceFailing ==
    \E d \in LimSteps :
        /\ lim_budget > 0
        /\ now' = now + d
        /\ lim_budget' = lim_budget - 1
        /\ UNCHANGED <<rate_limiter, lim_result, denial>>
        /\ UNCHANGED notLimVars

NextFailing ==
    \/ \E c \in Clients, e \in Endpoints, x \in BOOLEAN : RequestFails(c, e, x)
    \/ \E c \in Clients, e \in Endpoints, x \in BOOLEAN : RequestRefused(c, e, x)
    \/ AdvanceFailing

SpecFailing == InitFailing /\ [][NextFailing]_vars

(***************************************************************************)
(* search_cards with its request parameters: searches whose local database *)
(* search answers, with or without a sort.  cache_key_params holds the     *)
(* filters and the pagination, not sort, order, banlist or format.         *)
(***************************************************************************)
\* the (sort, order) of a request: none, or the attack in either direction
SortOrders == {<<"None", "None">>, <<"atk", "asc">>, <<"atk", "desc">>}
\* the page sizes asked for: shorter than the lists found, and the default
SearchLimits == {2, 20}
SearchRequests ==
    {[name |-> n, sort |-> so[1], order |-> so[2], limit |-> l] :
        n \in SearchNames, so \in SortOrders, l \in SearchLimits}
NoSearchRequest == [name |-> "None", sort |-> "None", order |-> "None", limit |-> None]

\* cache_key_params of a request, in the order the handler fills the dict
CacheKeyParams(req) == <<<<"type", "None">>, <<"name", req.name>>, <<"limit", req.limit>>>>
SortedKeyDomain ==
    {GenerateCacheKey("card_search", CacheKeyParams(req)) : req \in SearchRequests}

\* Card.search_by_filters: the cards whose name matches, in the order of the table
CardsNamed(name) ==
    IF name = "dragon"
    THEN <<[name |-> "Blue-Eyes White Dragon", atk |-> 3000],
           [name |-> "Red-Eyes Black Dragon", atk |-> 2400],
           [name |-> "Baby Dragon", atk |-> 1200]>>
    ELSE <<[name |-> "Dark Magician", atk |-> 2500],
           [name |-> "Dark Magician Girl", atk |-> 2000]>>

\* list.sort(key = atk, reverse): a stable insertion by the attack
RECURSIVE InsertCard(_, _, _)
InsertCard(card, sorted, reverse) ==
    IF sorted = <<>> THEN <<card>>
    ELSE IF (~reverse /\ card.atk < Head(sorted).atk)
            \/ (reverse /\ card.atk > Head(sorted).atk)
    THEN <<card>> \o sorted
    ELSE <<Head(sorted)>> \o InsertCard(card, Tail(sorted), reverse)

RECURSIVE SortCards(_, _)
SortCards(cards, reverse) ==
    IF cards = <<>> THEN <<>>
    ELSE InsertCard(cards[Len(cards)], SortCards(SubSeq(cards, 1, Len(cards) - 1), reverse),
                    reverse)

\* filtered_data of a request: the cards found, sorted when a sort is asked for
FilteredData(req) ==
    IF req.sort = "atk" THEN SortCards(CardsNamed(req.name), req.order = "desc")
    ELSE CardsNamed(req.name)

\* filtered_data[offset : min(offset + limit, total_count)]
Paginate(data, limit, offset) == SubSeq(data, offset + 1, Min(offset + limit, Len(data)))

\* CardSearchResponse with its total: None when the handler does not pass it
WithTotal(response, total) ==
    [data |-> response.data, count |-> response.count, total |-> total,
     error |-> response.error, cached |-> response.cached]

IdleSorted == [pc |-> "idle", client |-> "none", retry_after |-> None,
               request |-> NoSearchRequest, response |-> WithTotal(NoSearchResponse, None)]

InitSorted ==
    /\ now = RouteStart
    /\ rate_limiter =
           [request_history |-> [k \in SearchKeys |-> <<>>],
            failure_counts |-> [k \in SearchKeys |-> 0],
            backoff_until |-> [k \in SearchKeys |-> None],
            global_request_times |-> <<>>,
            global_failure_count |-> 0,
            global_backoff_until |-> None]
    /\ cache_service =
           [memory_cache |-> [k \in SortedKeyDomain |-> NoEntry],
            disk_cache |-> [k \in SortedKeyDomain |-> NoEntry],
            redis_store |-> [k \in SortedKeyDomain |-> NoEntry],
            redis_client |-> FALSE]
    /\ request_queue = NewRequestQueue
    /\ upstream_calls = <<>>
    /\ card_requests = [p \in RouteCallers |-> IdleSorted]
    /\ faults_left = 0
    /\ set_log = [k \in Keys |-> NoSet]
    /\ last_get = NoGet
    /\ lim_result = NoCheck
    /\ denial = NoDenial
    /\ lim_budget = 0
    /\ queue_calls = <<>>
    /\ dispatches = NoDispatches
    /\ RetryIdle

\* The handler of a search the local database answers: no await suspends it.
\* The requests ask for the first page (offset 0).
SortedSearch(p, client_ip, req) ==
    LET key == ClientKey(client_ip, "search")
        c == [IdleSorted EXCEPT !.client = client_ip, !.request = req]
        local == CheckRateLimit(rate_limiter, key, FALSE, now)
        cache_key == GenerateCacheKey("card_search", CacheKeyParams(req))
        hit == CacheGet(cache_service, cache_key, now, NoFaults)
    IN  /\ card_requests[p].pc = "idle"
        /\ IF RateLimitExceeded(local)
           THEN /\ rate_limiter' = local.rl
                /\ card_requests' = [card_requests EXCEPT ![p] =
                       TooManyRequests(c, local)]
                /\ UNCHANGED cache_service
           ELSE IF hit.data # NoData
           THEN /\ rate_limiter' = RecordRequest(local.rl, key, FALSE, now)
                /\ cache_service' = hit.cs
                /\ card_requests' = [card_requests EXCEPT ![p] =
                       [c EXCEPT !.pc = "cached",
                                 !.response =
                                     WithTotal(SearchResponse(hit.data, TRUE, "none"), None)]]
           ELSE /\ rate_limiter' = RecordRequest(local.rl, key, FALSE, now)
                /\ cache_service' = CacheSet(hit.cs, cache_key, FilteredData(req),
                                             search_results_ttl, now, NoFaults)
                /\ card_requests' = [card_requests EXCEPT ![p] =
                       [c EXCEPT !.pc = "served",
                                 !.response =
                                     WithTotal(SearchResponse(
                                                   Paginate(FilteredData(req), req.limit, 0),
                                                   FALSE, "none"),
                                               Len(FilteredData(req)))]]
        /\ UNCHANGED <<now, request_queue, upstream_calls, error_handler>>
        /\ UNCHANGED notRouteVars

NextSorted ==
    \/ \E p \in RouteCallers, c \in Clients, req \in SearchRequests : SortedSearch(p, c, req)
    \/ AdvanceRoute

SpecSorted == InitSorted /\ [][NextSorted]_vars

(***************************************************************************)
(* calculate_delay on its own: the delay after each failed attempt, for    *)
(* the configured operations and for a custom_config without jitter.       *)
(***************************************************************************)
MaxDelayAttempt == 8
MaxDelayCalls == 2
DelayAttempts == 1..MaxDelayAttempt
DelayOperations == {"api_request", "cache_operation", "database_operation"}
DelayConfigs ==
    {[RetryConfigOf(o) EXCEPT !.jitter = j] : o \in DelayOperations, j \in BOOLEAN}

InitDelay ==
    /\ now = StartTime
    /\ error_handler = NewErrorHandler
    /\ retry_calls = <<>>
    /\ CacheIdle
    /\ LimiterIdle
    /\ QueueIdle
    /\ RouteIdle

\* one call of calculate_delay
DelayCall(attempt, config, random) ==
    /\ Len(retry_calls) < MaxDelayCalls
    /\ retry_calls' = Append(retry_calls,
           [attempt |-> attempt, config |-> config,
            delay |-> CalculateDelay(attempt, config, random)])
    /\ UNCHANGED <<now, error_handler>>
    /\ UNCHANGED notRetryVars

NextDelay ==
    \E a \in DelayAttempts, c \in DelayConfigs, r \in RandomDraws : DelayCall(a, c, r)

SpecDelay == InitDelay /\ [][NextDelay]_vars

(***************************************************************************)
(* Properties                                                              *)
(***************************************************************************)

\* The get that has just returned, when its key was set and not deleted since,
\* in a run where no backend has failed.
GetAfterSet ==
    /\ last_get # NoGet
    /\ set_log[last_get.key].value # NoData
    /\ faults_left = MaxFaults

\* C1: after set(k, v, ttl) with no later set or delete of k, a get(k) issued
\* before ttl has elapsed returns v and a get(k) issued strictly after ttl has
\* elapsed returns absent, whatever gets, clear_expired calls, promotions and
\* losses of the in-process tier came in between.
CacheTtl ==
    GetAfterSet =>
        LET s == set_log[last_get.key]
        IN  /\ last_get.at < s.at + s.ttl => last_get.data = s.value
            /\ last_get.at > s.at + s.ttl => last_get.data = NoData

\* C2: the dispatch times of any two calls of the wrapped request function
\* are at least request_delay apart (it is enough to compare each dispatch
\* with the one before it).
QueueSpacing ==
    dispatches[1] # None => dispatches[2] - dispatches[1] >= request_delay

\* The execute_request calls admitted and not yet returned or raised.
InFlight ==
    {p \in DOMAIN queue_calls : queue_calls[p].pc \in {"sleeping", "calling"}}

\* C3: in every reachable state at most max_concurrent wrapped calls are in
\* flight, admitted and not yet returned or raised.
ConcurrencyBound ==
    /\ Cardinality(InFlight) <= max_concurrent
    /\ queue_calls # <<>> =>
           request_queue.semaphore = max_concurrent - Cardinality(InFlight)

\* C3 happens: max_concurrent calls are in flight while another caller waits.
ConcurrencyBoundReached ==
    /\ Cardinality(InFlight) = max_concurrent
    /\ \E p \in DOMAIN queue_calls : queue_calls[p].pc = "idle"

\* The upstream calls made in the 60 seconds that start with the i-th.
CallsInWindowFrom(i) ==
    {j \in i..Len(upstream_calls) :
        upstream_calls[j] < upstream_calls[i] + window_seconds}

\* C4: the number of calls dispatched to the upstream provider within any
\* 60-second window never exceeds the global ceiling, retry attempts and
\* failing calls counted like the calls that succeed.
UpstreamCeiling ==
    \A i \in 1..Len(upstream_calls) :
        Cardinality(CallsInWindowFrom(i)) <= global_limit

\* The requests of the checked key that lie in the window at the time of the
\* check_rate_limit call that has just returned.
CheckedWindow ==
    CleanOldRequests(rate_limiter.request_history[lim_result.key], lim_result.at)

\* C5: once burst_limit requests of a key have been recorded within the
\* window, the next check for that key returns allowed = false with
\* retry_after > 0.
BurstDenied ==
    (lim_result # NoCheck /\ Len(CheckedWindow) >= burst_limit) =>
        /\ ~lim_result.allowed
        /\ lim_result.retry_after > 0

\* C5 happens: a check has just met burst_limit recorded requests, no backoff
\* being active, and has denied the caller.
BurstDenialSeen ==
    /\ lim_result # NoCheck
    /\ Len(CheckedWindow) = burst_limit
    /\ lim_result.reason = "burst"
    /\ ~lim_result.allowed
    /\ lim_result.retry_after > 0

\* C6: when the in-window request count of a key has reached the per-minute
\* ceiling, the next check (no backoff being active) returns allowed = false
\* with retry_after = 60 s minus the time since the oldest request in the
\* window, floored at 1 s.
PerMinuteRetryAfter ==
    (/\ lim_result # NoCheck
     /\ lim_result.reason \notin {"backoff", "global_backoff"}
     /\ Len(CheckedWindow) >= requests_per_minute) =>
        /\ ~lim_result.allowed
        /\ lim_result.retry_after = WindowRetryAfter(CheckedWindow[1], lim_result.at)

\* C7: a caller denied with retry_after = r, nothing further having been
\* recorded for it or globally, is allowed by a check made once r has elapsed
\* (stated here for the checks made strictly later than that), whatever the
\* reason of the denial.
WindowRecovery ==
    (denial # NoDenial /\ now > denial.at + denial.retry_after) =>
        CheckRateLimit(rate_limiter, denial.key, denial.is_external, now).allowed

\* A retry_with_backoff call that has raised: to its caller, or to
\* safe_api_call, which returns the fallback response.
HasRaised(c) == c.pc = "raised" \/ (c.pc = "returned" /\ c.value = "fallback")
HasReturned(c) == c.pc = "returned" /\ c.value = "result"
RaisedError(c) == IF c.pc = "raised" THEN c.raised ELSE c.response.error

\* C8: retry_with_backoff invokes the operation once per attempt, and goes on
\* to another attempt only after a retryable error and fewer than max_attempts
\* attempts: it returns the result of the first attempt that succeeds, and it
\* raises the error of the attempt that failed either non-retryably or as the
\* max_attempts-th.
RetryAttemptCount ==
    \A p \in DOMAIN retry_calls :
        LET c == retry_calls[p]
            config == RetryConfigOf(c.op)
            n == Len(c.outcomes)
        IN  /\ c.invoked <= config.max_attempts
            /\ c.invoked = n + (IF c.pc = "calling" THEN 1 ELSE 0)
            /\ \A i \in 1..(c.invoked - 1) :
                   /\ c.outcomes[i] # OkOutcome
                   /\ ShouldRetry(c.outcomes[i])
            /\ HasReturned(c) => c.outcomes[n] = OkOutcome
            /\ HasRaised(c) =>
                   /\ c.outcomes[n] # OkOutcome
                   /\ RaisedError(c) = c.outcomes[n]
                   /\ ~ShouldRetry(c.outcomes[n]) \/ n = config.max_attempts
            /\ c.pc = "sleeping" =>
                   /\ ShouldRetry(c.outcomes[n])
                   /\ n < config.max_attempts

\* C8 happens: one call has raised after max_attempts retryable errors, the
\* other has returned after one retryable error.
RetryExhaustedAndRecovered ==
    \E p, q \in DOMAIN retry_calls :
        /\ retry_calls[p].pc = "raised"
        /\ retry_calls[p].invoked = RetryConfigOf(retry_calls[p].op).max_attempts
        /\ ShouldRetry(retry_calls[p].raised)
        /\ HasReturned(retry_calls[q])
        /\ retry_calls[q].invoked = 2

\* C9: whenever a retry_with_backoff call returns successfully, the failure
\* counter of its operation type is zero at the moment it returns.
SuccessResetsCount ==
    [][\A p \in DOMAIN retry_calls :
          (~HasReturned(retry_calls[p]) /\ HasReturned(retry_calls'[p])) =>
              ErrorCount(error_handler', retry_calls'[p].op) = 0]_vars

\* C9 happens: a call has returned on a later attempt, after failures were
\* counted for its operation type, and the count is zero.
CountResetAfterFailures ==
    \E p \in DOMAIN retry_calls :
        /\ HasReturned(retry_calls[p])
        /\ retry_calls[p].invoked >= 2
        /\ error_handler.error_counts[retry_calls[p].op] = 0

\* The safe_api_call calls whose operation failed on every attempt.
Degraded(c) == c.safe /\ c.pc = "returned" /\ c.value = "fallback"

\* C10: when the operation fails on every attempt safe_api_call never
\* raises; it returns a response with the fallback marker and an error set,
\* and its data is non-empty whenever a fallback dataset exists for the
\* operation: a default the caller supplied, or the canned popular list.
FallbackAvailability ==
    \A p \in DOMAIN retry_calls :
        LET c == retry_calls[p]
        IN  /\ c.safe => c.pc # "raised"
            /\ Degraded(c) =>
                   /\ c.response.fallback
                   /\ c.response.error # NoError
                   /\ ((c.fallback_data.given /\ c.fallback_data.items # <<>>)
                       \/ c.op = "card_search") => c.response.data # <<>>

\* C10, as the code has it: the data is the caller's default when it supplied
\* a non-empty one, the canned popular list when the operation is card_search
\* and the caller supplied no default at all, and empty otherwise (so an empty
\* default of the caller keeps the canned list out).
FallbackAvailabilityAmended ==
    \A p \in DOMAIN retry_calls :
        LET c == retry_calls[p]
        IN  /\ c.safe => c.pc # "raised"
            /\ Degraded(c) =>
                   /\ c.response.fallback
                   /\ c.response.error # NoError
                   /\ c.response.error = c.outcomes[Len(c.outcomes)]
                   /\ c.response.data =
                          IF c.fallback_data.given THEN c.fallback_data.items
                          ELSE IF c.op = "card_search" THEN PopularCards
                          ELSE <<>>

\* C10 happens: card_search calls under safe_api_call have failed on every
\* attempt; the one without a default got the canned list, the one with an
\* empty default got no data.
FallbackReturned ==
    \E p, q \in DOMAIN retry_calls :
        /\ Degraded(retry_calls[p])
        /\ retry_calls[p].op = "card_search"
        /\ ~retry_calls[p].fallback_data.given
        /\ retry_calls[p].response.data = PopularCards
        /\ Degraded(retry_calls[q])
        /\ retry_calls[q].op = "card_search"
        /\ retry_calls[q].fallback_data = FallbackData(<<>>)
        /\ retry_calls[q].response.data = <<>>

\* A search whose every upstream attempt, max_attempts of them, failed with a 503.
SearchExhausted(c) ==
    /\ c.pc = "failed"
    /\ Len(c.outcomes) = RetryConfigOf("api_request").max_attempts
    /\ \A i \in 1..Len(c.outcomes) : c.outcomes[i] = Err("HTTPStatusError", 503)

\* C11: when the upstream call of a search fails with a 503 on all
\* max_attempts attempts, the handler answers with the popular-item list of
\* FallbackStrategy and an embedded error message, not with an empty result.
SearchFallsBackToPopular ==
    \A p \in DOMAIN card_requests :
        SearchExhausted(card_requests[p]) =>
            /\ card_requests[p].response.data = PopularCards
            /\ card_requests[p].response.error # "none"

\* Some request obtained the card from upstream and cached it, less than the
\* card ttl ago.
ServedWithinTtl ==
    \E q \in DOMAIN card_requests :
        /\ card_requests[q].pc = "served"
        /\ now < card_requests[q].served_at + card_data_ttl

\* Request p enters the handler in this step.
Arrives(p) == card_requests[p].pc = "idle" /\ card_requests'[p].pc # "idle"

\* C12: after a request that missed the cache obtained the card from
\* upstream, every later request for it within the card ttl returns the cached
\* copy marked cached and dispatches no upstream call.
LaterRequestsCached ==
    [][\A p \in DOMAIN card_requests :
          (ServedWithinTtl /\ Arrives(p)) =>
              /\ card_requests'[p].pc = "cached"
              /\ upstream_calls' = upstream_calls]_vars

\* C12, as the code has it: such a later request dispatches no upstream call,
\* and returns the cached copy unless the local rate-limit check, which comes
\* before the cache lookup, refuses it with a 429.
LaterRequestsCachedOrRejected ==
    [][\A p \in DOMAIN card_requests :
          (ServedWithinTtl /\ Arrives(p)) =>
              LET key == ClientKey(card_requests'[p].client, "get_by_id")
                  local == CheckRateLimit(rate_limiter, key, FALSE, now)
              IN  /\ upstream_calls' = upstream_calls
                  /\ card_requests'[p].attempt = 0
                  /\ card_requests'[p].pc =
                         IF local.allowed THEN "cached" ELSE "rejected"]_vars

\* C12 happens: one request was served from upstream, a later one from the
\* cache.
ServedThenCached ==
    \E p, q \in DOMAIN card_requests :
        /\ card_requests[p].pc = "served"
        /\ card_requests[q].pc = "cached"
        /\ card_requests[q].attempt = 0

\* C13: for consecutive record_failure calls on one key with no reset in
\* between, the backoff duration computed at each call is at least that of the
\* call before and at most max_backoff; the same holds for the global backoff.
BackoffGrowth ==
    lim_result # NoFailureCall =>
        /\ ~lim_result.raised
        /\ lim_result.backoff <= max_backoff
        /\ (denial # NoFailureCall /\ denial.key = lim_result.key) =>
               denial.backoff <= lim_result.backoff
        /\ lim_result.global_backoff # None =>
               /\ lim_result.global_backoff <= max_backoff
               /\ denial.global_backoff # None =>
                      denial.global_backoff <= lim_result.global_backoff

\* A step of check_rate_limit: lim_result' is the check that has returned.
Checked == lim_result' # NoCheck

GlobalBackoffUnexpired ==
    /\ rate_limiter.global_backoff_until # None
    /\ now < rate_limiter.global_backoff_until

\* C14 as stated: while a global backoff is set and unexpired, every check,
\* of any caller, endpoint and is_external value, is denied with retry_after
\* equal to the remaining global cooldown.
GlobalBackoffDeniesAll ==
    [][(Checked /\ GlobalBackoffUnexpired) =>
           /\ ~lim_result'.allowed
           /\ lim_result'.retry_after = rate_limiter.global_backoff_until - now]_vars

\* C14 as the code has it: while a global backoff is set and unexpired, every
\* check with is_external true, of any caller and endpoint, is denied with
\* retry_after equal to the remaining global cooldown, and changes nothing in
\* the limiter; a check with is_external false does not consult it.
GlobalBackoffDeniesExternal ==
    [][(Checked /\ GlobalBackoffUnexpired /\ lim_result'.is_external) =>
           /\ ~lim_result'.allowed
           /\ lim_result'.retry_after = rate_limiter.global_backoff_until - now
           /\ rate_limiter' = rate_limiter]_vars

\* an external check of a caller with no backoff of its own and room in every
\* window, denied by the global backoff
GlobalBackoffDenialSeen ==
    /\ lim_result.reason = "global_backoff"
    /\ lim_result.is_external
    /\ lim_result.retry_after > 0
    /\ rate_limiter.backoff_until[lim_result.key] = None
    /\ Len(rate_limiter.request_history[lim_result.key]) < burst_limit

\* The global backoff denies the check before the caller's own is looked at.
DeniedByGlobalBackoff == lim_result'.is_external /\ GlobalBackoffUnexpired

\* C15 as stated: while a key has an unexpired backoff a check for it is denied
\* with the remaining cooldown (the key's, or the global one when that denies
\* the check first), however many requests its window holds; the first check
\* for the key at or after expiry removes the backoff and resets the key's
\* failure count to zero.
CallerBackoff ==
    [][Checked =>
         LET key == lim_result'.key
             backoff_until == rate_limiter.backoff_until[key]
         IN  backoff_until # None =>
                 IF now < backoff_until
                 THEN /\ ~lim_result'.allowed
                      /\ lim_result'.retry_after =
                             IF DeniedByGlobalBackoff
                             THEN rate_limiter.global_backoff_until - now
                             ELSE backoff_until - now
                 ELSE /\ rate_limiter'.backoff_until[key] = None
                      /\ rate_limiter'.failure_counts[key] = 0]_vars

\* C15 as the code has it: the same, for every check that an unexpired global
\* backoff does not deny first.
CallerBackoffAfterGlobal ==
    [][(Checked /\ ~DeniedByGlobalBackoff) =>
         LET key == lim_result'.key
             backoff_until == rate_limiter.backoff_until[key]
         IN  backoff_until # None =>
                 IF now < backoff_until
                 THEN /\ ~lim_result'.allowed
                      /\ lim_result'.retry_after = backoff_until - now
                 ELSE /\ rate_limiter'.backoff_until[key] = None
                      /\ rate_limiter'.failure_counts[key] = 0]_vars

\* a check denied by the key's backoff while its window is full to the burst limit
CallerBackoffWithFullWindow ==
    /\ lim_result.reason = "backoff"
    /\ Len(rate_limiter.request_history[lim_result.key]) >= burst_limit
    /\ lim_result.retry_after = rate_limiter.backoff_until[lim_result.key] - lim_result.at

\* C16: a check returns (true, none) or (false, r) with r > 0: an allowed check
\* carries no retry_after and every denial carries a strictly positive one.
CheckResultShape ==
    lim_result # NoCheck =>
        \/ lim_result.allowed /\ lim_result.retry_after = None
        \/ ~lim_result.allowed /\ lim_result.retry_after > 0

\* a window denial whose oldest request is exactly window_seconds old, where
\* only the floor keeps retry_after positive
FlooredDenialSeen ==
    /\ lim_result.reason \in {"per_minute", "global_window"}
    /\ lim_result.retry_after = min_retry_after

\* C17: a request whose check for the external path is denied (the local
\* check allowed it and the cache missed) enters no retry loop and dispatches no
\* upstream call: it ends at once as a 429 that carries the check's
\* retry_after, and a request so ended never moves again.
SynchronousRefusal ==
    [][\A p \in RouteCallers :
         /\ Arrives(p) =>
              LET key == ClientKey(card_requests'[p].client, "get_by_id")
                  local == CheckRateLimit(rate_limiter, key, FALSE, now)
                  hit == CacheGet(cache_service, CardKey, now, NoFaults)
                  external == CheckRateLimit(local.rl, key, TRUE, now)
              IN  (local.allowed /\ hit.data = NoData /\ ~external.allowed) =>
                      /\ card_requests'[p].pc = "rejected"
                      /\ card_requests'[p].retry_after = external.retry_after
                      /\ card_requests'[p].retry_after > 0
                      /\ card_requests'[p].attempt = 0
                      /\ upstream_calls' = upstream_calls
                      /\ request_queue' = request_queue
                      /\ error_handler' = error_handler
         /\ card_requests[p].pc = "rejected" =>
                card_requests'[p] = card_requests[p]]_vars

\* a request refused by the external check alone: the upstream failure of
\* another caller's request set the global backoff, and the refused caller has
\* no backoff of its own and room in its window
ExternalDenialSeen ==
    \E p, q \in RouteCallers :
        /\ card_requests[p].pc = "failed"
        /\ card_requests[q].pc = "rejected"
        /\ card_requests[q].retry_after > 0
        /\ card_requests[q].attempt = 0
        /\ LET key == ClientKey(card_requests[q].client, "get_by_id")
           IN  /\ rate_limiter.backoff_until[key] = None
               /\ Len(rate_limiter.request_history[key]) < burst_limit
               /\ rate_limiter.global_backoff_until # None

SamePairs(a, b) == {a[i] : i \in DOMAIN a} = {b[i] : i \in DOMAIN b}

\* C18: two search-parameter dicts with the same key/value pairs in different
\* insertion orders produce the same cache key, so a get_card_search_results
\* with one order, made within the ttl of the last cache_card_search_results
\* with the other, returns the results stored.
CacheKeyDeterminism ==
    /\ \A a, b \in ParamOrders :
           SamePairs(a, b) =>
               GenerateCacheKey("card_search", a) = GenerateCacheKey("card_search", b)
    /\ (/\ last_get # NoSearchLookup
        /\ set_log # NoSearchStored
        /\ SamePairs(last_get.params, set_log.params)
        /\ last_get.at < set_log.at + search_results_ttl)
       => last_get.data = set_log.value

\* results stored under one insertion order and found under another
HitAcrossOrders ==
    /\ last_get # NoSearchLookup
    /\ set_log # NoSearchStored
    /\ last_get.params # set_log.params
    /\ SamePairs(last_get.params, set_log.params)
    /\ last_get.data = set_log.value
    /\ last_get.data # NoData

\* The get that has just returned, when its key was deleted and not set since.
GetAfterDelete ==
    /\ last_get # NoGet
    /\ set_log[last_get.key] # NoSet
    /\ set_log[last_get.key].value = NoData

WithFailingTiersEmpty(cs, key, f) ==
    [cs EXCEPT
        !.disk_cache[key] = IF f.disk_read THEN NoEntry ELSE @,
        !.redis_store[key] = IF f.redis_read THEN NoEntry ELSE @]

\* C20: get, set and delete complete when a tier operation raises (every
\* operation of the model returns), and: a get returns what it would return
\* from healthy tiers were the tiers it fails to read empty, the tiers after
\* them being consulted; a set writes and a delete clears every tier that does
\* not fail.
BackendFailureContained ==
    [][/\ last_get' # NoGet =>
            last_get'.data =
                CacheGet(WithFailingTiersEmpty(cache_service, last_get'.key,
                                               last_get'.faults),
                         last_get'.key, now, NoFaults).data
       /\ \A k \in Keys :
            (set_log'[k] # set_log[k]) =>
                LET s == set_log'[k]
                    cs == cache_service'
                    stored == IF s.value = NoData THEN NoEntry
                              ELSE Entry(s.value, s.at + s.ttl)
                    remote == IF s.value = NoData THEN NoEntry
                              ELSE Entry(JsonDumps(s.value), s.at + s.ttl)
                IN  /\ cs.memory_cache[k] = stored
                    /\ "disk" \notin s.failed => cs.disk_cache[k] = stored
                    /\ (cs.redis_client /\ "redis" \notin s.failed) =>
                           cs.redis_store[k] = remote]_vars

\* The failed attempt i of the call c was followed by a sleep and another attempt.
Retried(c, i) == i < c.invoked \/ (i = Len(c.outcomes) /\ c.pc = "sleeping")

\* The spec's classification: the error's kind is one of the configured
\* retryable kinds, or it carries a configured retryable transport status.
RetryableKindOrStatus(error) ==
    \/ Bases(error.cls) \cap retryable_exceptions # {}
    \/ error.status # None /\ error.status \in retryable_status_codes

\* C21: a failed attempt that is not the last one allowed is retried exactly
\* when its error is of a configured retryable kind or carries a configured
\* retryable status; a 404 and a validation failure are never retried.
RetryClassification ==
    \A p \in DOMAIN retry_calls :
        LET c == retry_calls[p]
            config == RetryConfigOf(c.op)
        IN  \A i \in 1..Len(c.outcomes) :
                LET error == c.outcomes[i]
                IN  error # OkOutcome =>
                        /\ i < config.max_attempts =>
                               (Retried(c, i) <=> RetryableKindOrStatus(error))
                        /\ (error.status = 404 \/ error.cls = "ValidationError") =>
                               ~Retried(c, i)

\* one call retried after a connection error and after a 503, and one call
\* ended at its first attempt by a validation failure
BothClassesSeen ==
    \E p, q \in DOMAIN retry_calls :
        LET c == retry_calls[p]
            d == retry_calls[q]
        IN  /\ Len(c.outcomes) >= 2
            /\ c.outcomes[1].cls = "ConnectionError"
            /\ c.outcomes[2].status = 503
            /\ c.invoked = 3
            /\ HasRaised(d)
            /\ d.invoked = 1
            /\ d.outcomes[1].cls = "ValidationError"

\* C22: create_standardized_error gives every raw error one kind of the fixed
\* set: by the status when the error carries one (404 not_found, 429
\* rate_limit, 5xx server_error), otherwise by the exception type (a timeout
\* type timeout, a connection type network), and retryable is the decision
\* the retry loop takes for the error.
StandardizedKind ==
    \A i \in DOMAIN retry_calls :
        LET error == retry_calls[i].raw
            r == retry_calls[i].standardized
        IN  /\ r.error \in ErrorKinds
            /\ r.retryable = ShouldRetry(error)
            /\ IF error.status # None
               THEN /\ error.status = 404 => r.error = "not_found"
                    /\ error.status = 429 => r.error = "rate_limit"
                    /\ (500 <= error.status /\ error.status < 600) =>
                           r.error = "server_error"
               ELSE /\ IsInstance(error, "TimeoutException") => r.error = "timeout"
                    /\ (IsInstance(error, "NetworkError")
                        \/ IsInstance(error, "ConnectionError")) => r.error = "network"

\* The responses that are not authoritative: served from the cache, or
\* produced after the local search had raised.
NotAuthoritative(c) ==
    \/ c.pc = "cached"
    \/ c.pc \in {"served", "failed"} /\ c.attempt > 0

\* C23: every response that is not authoritative carries a cached, fallback
\* or error marker in its payload (here: the suggestions operation).
DegradedIsMarked ==
    \A p \in RouteCallers :
        NotAuthoritative(card_requests[p]) =>
            card_requests[p].response.keys \cap {"cached", "fallback", "error"} # {}

\* C24: a call whose request_func raises ends execute_request with that
\* same exception, last_request_time set to the time of the failure as a
\* success sets it, and the permit given back.
FailureKeepsQueueBookkeeping ==
    [][\A p \in DOMAIN queue_calls :
          (queue_calls[p].pc = "calling" /\ queue_calls'[p].pc = "raised") =>
              /\ queue_calls'[p].raised = RequestError(p)
              /\ request_queue'.last_request_time = now
              /\ request_queue'.semaphore = request_queue.semaphore + 1]_vars

\* Every call is over, some of them raised after StartTime, and every permit
\* is back.
AllPermitsBackAfterFailure ==
    /\ queue_calls # <<>>
    /\ \A p \in DOMAIN queue_calls : queue_calls[p].pc \in {"raised", "returned"}
    /\ \E p, q \in DOMAIN queue_calls :
           queue_calls[p].pc = "raised" /\ queue_calls[q].pc = "returned"
    /\ request_queue.semaphore = max_concurrent
    /\ request_queue.last_request_time > StartTime

\* No request time of the window lies more than 60 seconds before t.
NoOldTime(request_times, t) ==
    \A i \in 1..Len(request_times) : request_times[i] >= t - window_seconds

\* C25, as stated: in every reachable state no caller window, and not the
\* global window, holds a request time older than 60 seconds before the
\* current time.
WindowsHoldNoOldTime ==
    /\ \A k \in DOMAIN rate_limiter.request_history :
           NoOldTime(rate_limiter.request_history[k], now)
    /\ NoOldTime(rate_limiter.global_request_times, now)

\* C25, amended: when a check_rate_limit call that no backoff denied has just
\* returned, the window of the key it checked holds no request time older
\* than 60 seconds, and after an external check the global window holds
\* none either.
CheckedWindowsHoldNoOldTime ==
    (lim_result # NoCheck /\ lim_result.reason \notin {"global_backoff", "backoff"}) =>
        /\ NoOldTime(rate_limiter.request_history[lim_result.key], lim_result.at)
        /\ lim_result.is_external =>
               NoOldTime(rate_limiter.global_request_times, lim_result.at)

\* C25 happens: 62 seconds after the start an external check of another key
\* has emptied the global window of its old times, while the window of the
\* prefilled key, not checked, still holds its own.
GlobalWindowPruned ==
    /\ lim_result # NoCheck
    /\ lim_result.is_external
    /\ lim_result.allowed
    /\ lim_result.key # PrefilledKey
    /\ lim_result.at > StartTime + window_seconds
    /\ lim_budget = MaxEvents - 2
    /\ rate_limiter.global_failure_count = global_failure_threshold - 1
    /\ Len(rate_limiter.request_history[PrefilledKey]) = burst_limit - 1
    /\ rate_limiter.global_request_times = <<>>

\* The requests check_rate_limit admitted in the 60 seconds that start at t.
AdmittedFrom(t) ==
    {p \in DOMAIN card_requests :
        /\ card_requests[p].pc \in {"working", "recorded"}
        /\ card_requests[p].at >= t
        /\ card_requests[p].at < t + window_seconds}

\* C26: for one key and any interleaving of concurrent requests, each doing
\* check, work and record_request, the number of requests check admits within
\* any 60-second window never exceeds burst_limit.
AdmissionsWithinBurst ==
    \A p \in DOMAIN card_requests :
        card_requests[p].pc \in {"working", "recorded"} =>
            Cardinality(AdmittedFrom(card_requests[p].at)) <= burst_limit

\* C27: when successive requests on one key each pass the check and then
\* fail, the backoff imposed after the n-th consecutive failure is
\* min(backoff_factor^n, max_backoff) seconds.
BackoffGrowsWithFailures ==
    lim_result # NoFailedRequest =>
        lim_result.backoff = Min(Pow(backoff_factor, lim_result.n) * Second, max_backoff)

\* A step of record_request: a window has grown.
Recorded ==
    \E k \in DOMAIN rate_limiter.request_history :
        Len(rate_limiter'.request_history[k]) > Len(rate_limiter.request_history[k])

\* A step of record_failure: an event of the run that is neither a record nor
\* a step of the clock.
FailureStep ==
    /\ lim_budget' = lim_budget - 1
    /\ now' = now
    /\ ~Recorded

\* The check that has just returned found the backoff of key k run out.
ObservedExpired(k) ==
    /\ Checked
    /\ lim_result'.key = k
    /\ rate_limiter.backoff_until[k] # None
    /\ now >= rate_limiter.backoff_until[k]

\* The check that has just returned found the global backoff run out.
ObservedGlobalExpired ==
    /\ Checked
    /\ lim_result'.is_external
    /\ rate_limiter.global_backoff_until # None
    /\ now >= rate_limiter.global_backoff_until

\* C28: a failure counter, of a key or the global one, changes only by a reset
\* to zero in a check that observes its backoff expired, or by a record_failure
\* that adds exactly one (to the counter of its key, and to the global one when
\* the call is external); record_request never changes a failure counter.
FailureCountersDiscipline ==
    [][/\ \A k \in DOMAIN rate_limiter.failure_counts :
              rate_limiter'.failure_counts[k] # rate_limiter.failure_counts[k] =>
                  \/ rate_limiter'.failure_counts[k] = 0 /\ ObservedExpired(k)
                  \/ /\ rate_limiter'.failure_counts[k] = rate_limiter.failure_counts[k] + 1
                     /\ FailureStep
       /\ rate_limiter'.global_failure_count # rate_limiter.global_failure_count =>
              \/ rate_limiter'.global_failure_count = 0 /\ ObservedGlobalExpired
              \/ /\ rate_limiter'.global_failure_count = rate_limiter.global_failure_count + 1
                 /\ FailureStep
       /\ Recorded =>
              /\ rate_limiter'.failure_counts = rate_limiter.failure_counts
              /\ rate_limiter'.global_failure_count = rate_limiter.global_failure_count
       /\ FailureStep =>
              \E k \in DOMAIN rate_limiter.failure_counts :
                  rate_limiter'.failure_counts =
                      [rate_limiter.failure_counts EXCEPT ![k] = @ + 1]
       /\ \A k \in DOMAIN rate_limiter.failure_counts, x \in BOOLEAN :
              (FailureStep /\ rate_limiter' = RecordFailure(rate_limiter, k, x, now)) =>
                  rate_limiter'.global_failure_count =
                      rate_limiter.global_failure_count + (IF x THEN 1 ELSE 0)
      ]_vars

\* C28 happens: one failure was recorded, two seconds have passed, and the
\* check that has just returned has set the counter back to zero (no window
\* holds a request, so the two events of the run were the failure and the
\* step of the clock).
CounterResetByCheck ==
    /\ lim_result # NoCheck
    /\ lim_result.allowed
    /\ lim_budget = MaxEvents - 2
    /\ now = StartTime + 2 * Second
    /\ \A k \in DOMAIN rate_limiter.request_history :
           /\ rate_limiter.request_history[k] = <<>>
           /\ rate_limiter.failure_counts[k] = 0
           /\ rate_limiter.backoff_until[k] = None
    /\ rate_limiter.global_request_times = <<>>
    /\ rate_limiter.global_failure_count = 0

\* What a reader finds in the three tiers at time t: an expired entry counts
\* as absent.
LiveEntry(e, t) == IF e # NoEntry /\ e.expires_at > t THEN e ELSE NoEntry
LiveTiers(cs, t) ==
    [memory |-> [k \in DOMAIN cs.memory_cache |-> LiveEntry(cs.memory_cache[k], t)],
     disk |-> [k \in DOMAIN cs.disk_cache |-> LiveEntry(cs.disk_cache[k], t)],
     redis |-> [k \in DOMAIN cs.redis_store |-> LiveEntry(cs.redis_store[k], t)]]

\* The get that has just returned, measured on the tiers it found: what
\* tier 2 and tier 3 gave it, and what the claim asks of the three cases.
\* excusing: the case of a tier-2 write that raises is left out.
ReadThroughStep(excusing) ==
    last_get' # NoGet =>
        LET key == last_get'.key
            f == last_get'.faults
            cs == cache_service
            after == cache_service'
            tier2 == IF f.disk_read THEN NoData ELSE DiskGet(cs.disk_cache, key, now)
            tier3 == IF cs.redis_client /\ ~f.redis_read
                     THEN RedisGet(cs.redis_store, key, now) ELSE NoData
        IN  LiveEntry(cs.memory_cache[key], now) = NoEntry =>
                /\ tier2 # NoData =>
                       /\ after.memory_cache[key] = Entry(tier2, now + default_ttl)
                       /\ last_get'.data = tier2
                       /\ after.disk_cache = cs.disk_cache
                       /\ after.redis_store = cs.redis_store
                /\ (tier2 = NoData /\ tier3 # NoData /\ ~(excusing /\ f.disk_write)) =>
                       /\ after.memory_cache[key] = Entry(JsonLoads(tier3), now + default_ttl)
                       /\ after.disk_cache[key] = Entry(JsonLoads(tier3), now + default_ttl)
                       /\ last_get'.data = JsonLoads(tier3)
                       /\ after.redis_store = cs.redis_store
                /\ (tier2 = NoData /\ tier3 = NoData) =>
                       /\ last_get'.data = NoData
                       /\ LiveTiers(after, now) = LiveTiers(cs, now)

\* C29, as stated: a get that misses tier 1 and hits tier 2 copies the value
\* into tier 1 with expiry now + default TTL and returns it; one that misses
\* tiers 1 and 2 and hits tier 3 copies the value into tiers 1 and 2 and
\* returns it; one that misses every tier returns absent and leaves what the
\* tiers hold as it was.
ReadThroughPromotion == [][ReadThroughStep(FALSE)]_vars

\* The three cases of C29 with the tier-3 case taken only when the write into
\* tier 2 does not raise: this much holds of every get.
ReadThroughPromotionWhenTier2Writes == [][ReadThroughStep(TRUE)]_vars

\* The promotion happens: the get that has just returned took the value from tier 3
\* (it is the json form of the payload, which only the remote tier holds) and
\* tiers 1 and 2 now hold it with expiry now + default TTL.
PromotedFromTier3 ==
    /\ last_get # NoGet
    /\ last_get.data = "str(obj)"
    /\ cache_service.memory_cache[last_get.key] =
           Entry("str(obj)", last_get.at + default_ttl)
    /\ cache_service.disk_cache[last_get.key] =
           Entry("str(obj)", last_get.at + default_ttl)

\* C30: a cached result is never served to a logically different query: what
\* a request is served from the cache is the result of its own parameters,
\* sort and order among them.
CachedResultAnswersQuery ==
    \A p \in DOMAIN card_requests :
        card_requests[p].pc = "cached" =>
            card_requests[p].response.data = FilteredData(card_requests[p].request)

\* C31: the payload of a search served from the cache equals the payload of
\* the cache-miss request with the same parameters that filled the entry
\* (same items, same page, same count), the cached flag apart.
CachedPayloadEqualsServed ==
    \A p, q \in DOMAIN card_requests :
        (/\ card_requests[p].pc = "served"
         /\ card_requests[q].pc = "cached"
         /\ card_requests[p].request = card_requests[q].request) =>
            card_requests[q].response = [card_requests[p].response EXCEPT !.cached = TRUE]

\* The requests whose handler is at one of the given places.
RequestsAt(places) == {p \in DOMAIN card_requests : card_requests[p].pc \in places}

\* C32, as stated: one upstream request takes one queue permit that covers all
\* of its attempts and the backoff sleeps between them.
PermitCoversRetryLoop ==
    request_queue.semaphore =
        max_concurrent - Cardinality(RequestsAt({"spacing", "upstream", "backoff"}))

\* C32, as the code has it: every attempt takes its own permit, held from the
\* attempt's admission (its spacing sleep included) to the end of the upstream
\* call, and given back before the backoff sleep.
PermitCoversOneAttempt ==
    request_queue.semaphore =
        max_concurrent - Cardinality(RequestsAt({"spacing", "upstream"}))

\* C32 happens: a request sleeps between two attempts while another is in its
\* second attempt, and only the latter holds a permit.
SleepingWithoutPermit ==
    \E p, q \in DOMAIN card_requests :
        /\ card_requests[p].pc = "backoff"
        /\ card_requests[q].pc = "upstream"
        /\ card_requests[q].attempt = 2
        /\ request_queue.semaphore = max_concurrent - 1

\* The upstream calls a request has dispatched itself: one per attempt that is
\* past its spacing sleep.
OwnCalls(p) ==
    LET c == card_requests[p]
    IN  IF c.pc \in {"upstream", "backoff", "served", "failed"} THEN c.attempt
        ELSE IF c.pc = "spacing" THEN c.attempt - 1
        ELSE 0

\* The upstream calls sent since the requests began to arrive.
CallsOfRequests == {i \in 1..Len(upstream_calls) : upstream_calls[i] >= RouteStart}

RECURSIVE SumOwnCalls(_)
SumOwnCalls(S) ==
    IF S = {} THEN 0
    ELSE LET p == CHOOSE x \in S : TRUE
         IN  OwnCalls(p) + SumOwnCalls(S \ {p})

\* C33: no coalescing per key: every request that misses the cache and passes
\* the checks dispatches its own upstream call for the key, whatever other
\* requests for the same key have in flight; no call is shared.
EveryMissDispatchesItsOwnCall ==
    Cardinality(CallsOfRequests) = SumOwnCalls(DOMAIN card_requests)

\* C33 happens: two requests for the same uncached key are both in their first
\* upstream call at the same time.
BothMissAndDispatch ==
    /\ \A p \in DOMAIN card_requests :
           card_requests[p].pc = "upstream" /\ card_requests[p].attempt = 1
    /\ Cardinality(DOMAIN card_requests) = 2
    /\ Cardinality(CallsOfRequests) = 2
    /\ \A i \in CallsOfRequests : upstream_calls[i] = now
    /\ CacheGet(cache_service, CardKey, now, NoFaults).data = NoData

UnjitteredDelay(attempt, config) ==
    Min(config.base_delay * Pow(exponential_base, attempt - 1), max_delay)

\* C35: the delay after failed attempt a is min(base_delay * 2^(a-1), max_delay),
\* scaled by a factor between a half and one when jitter is on: every delay is
\* at most max_delay and at least half the unjittered delay, and without
\* jitter the delay does not decrease as a grows.
RetryDelayBounds ==
    /\ \A i \in 1..Len(retry_calls) :
           LET r == retry_calls[i]
               unjittered == UnjitteredDelay(r.attempt, r.config)
           IN  /\ r.delay <= max_delay
               /\ 2 * r.delay >= unjittered
               /\ r.delay <= unjittered
               /\ ~r.config.jitter => r.delay = unjittered
    /\ \A i, j \in 1..Len(retry_calls) :
           (/\ retry_calls[i].config = retry_calls[j].config
            /\ ~retry_calls[i].config.jitter
            /\ retry_calls[i].attempt <= retry_calls[j].attempt) =>
               retry_calls[i].delay <= retry_calls[j].delay

\* C35 happens: a delay at the cap without jitter after a smaller one for an
\* earlier attempt of the same configuration.
DelayReachesCap ==
    \E i, j \in 1..Len(retry_calls) :
        /\ retry_calls[i].config = retry_calls[j].config
        /\ ~retry_calls[i].config.jitter
        /\ retry_calls[i].attempt < retry_calls[j].attempt
        /\ retry_calls[i].delay < retry_calls[j].delay
        /\ retry_calls[j].delay = max_delay
        /\ retry_calls[j].config.base_delay * Pow(exponential_base, retry_calls[j].attempt - 1)
               > max_delay

\* A jittered delay at half the cap: the smallest draw at a capped attempt.
JitteredHalfOfCap ==
    \E i \in 1..Len(retry_calls) :
        /\ retry_calls[i].config.jitter
        /\ UnjitteredDelay(retry_calls[i].attempt, retry_calls[i].config) = max_delay
        /\ 2 * retry_calls[i].delay = max_delay

\* C36: a key has a backoff entry exactly when its failure count is at least
\* one, and the global backoff is set exactly when the global failure count
\* has reached the threshold.
BackoffMatchesFailures ==
    /\ \A k \in DOMAIN rate_limiter.failure_counts :
           (rate_limiter.backoff_until[k] # None) <=> (rate_limiter.failure_counts[k] >= 1)
    /\ (rate_limiter.global_backoff_until # None) <=>
           (rate_limiter.global_failure_count >= global_failure_threshold)

\* What the limiter holds for one key, and what it holds for all callers.
KeyState(rl, k) ==
    <<rl.request_history[k], rl.failure_counts[k], rl.backoff_until[k]>>
GlobalState(rl) ==
    <<rl.global_request_times, rl.global_failure_count, rl.global_backoff_until>>

\* The limiters check_rate_limit, record_request or record_failure on key k
\* can leave behind.
AfterOperation(rl, k, is_external_api) ==
    {CheckRateLimit(rl, k, is_external_api, now).rl,
     RecordRequest(rl, k, is_external_api, now),
     RecordFailure(rl, k, is_external_api, now)}

\* The limiter with another global state: a full global window, the global
\* count at the threshold and a global backoff that has not run out.
OtherGlobalState(rl) ==
    [rl EXCEPT !.global_request_times = [i \in 1..global_limit |-> now],
               !.global_failure_count = global_failure_threshold,
               !.global_backoff_until = now + BackoffSeconds(global_failure_threshold)]

\* What check_rate_limit answers and leaves for the key it checks.
LocalOutcome(rl, k) ==
    LET r == CheckRateLimit(rl, k, FALSE, now)
    IN  <<r.allowed, r.retry_after, r.reason, KeyState(r.rl, k)>>

\* C37: an operation on one key leaves the window, the failure count and the
\* backoff of every other key as they were; with is_external_api false it
\* leaves the global state as it was and does not read it; so the outcome of a
\* local check of a key is the same whatever was done on other keys and
\* whatever the global state is.
PerKeyIsolation ==
    \A k \in DOMAIN rate_limiter.failure_counts :
        /\ \A x \in BOOLEAN : \A after \in AfterOperation(rate_limiter, k, x) :
               /\ \A other \in DOMAIN rate_limiter.failure_counts \ {k} :
                      /\ KeyState(after, other) = KeyState(rate_limiter, other)
                      /\ LocalOutcome(after, other) = LocalOutcome(rate_limiter, other)
               /\ ~x => GlobalState(after) = GlobalState(rate_limiter)
        /\ LocalOutcome(OtherGlobalState(rate_limiter), k) = LocalOutcome(rate_limiter, k)
        /\ \A after \in AfterOperation(OtherGlobalState(rate_limiter), k, FALSE) :
               /\ KeyState(after, k) \in
                      {KeyState(a, k) : a \in AfterOperation(rate_limiter, k, FALSE)}
               /\ GlobalState(after) = GlobalState(OtherGlobalState(rate_limiter))

\* C37 happens: a local check of one key has just been allowed while another
\* key is in its backoff and the global backoff has not run out.
LocalCheckUnderGlobalBackoff ==
    /\ lim_result # NoCheck
    /\ ~lim_result.is_external
    /\ lim_result.allowed
    /\ lim_result.at = now
    /\ rate_limiter.global_backoff_until # None
    /\ now < rate_limiter.global_backoff_until
    /\ \E other \in DOMAIN rate_limiter.failure_counts \ {lim_result.key} :
           /\ rate_limiter.backoff_until[other] # None
           /\ now < rate_limiter.backoff_until[other]

\* Two stored entries are the same: both absent, or the same payload with the
\* same expiry (the tiers hold payloads of different kinds).
SameStored(a, b) ==
    /\ a.expires_at = b.expires_at
    /\ a.expires_at # None => a.data = b.data

UnexpiredKeptInMemory ==
    \E k \in Keys :
        /\ cache_service.memory_cache[k].expires_at # None
        /\ cache_service.memory_cache[k].expires_at > now
        /\ now > StartTime

=============================================================================
